---- MODULE Spec2Model ----
(***************************************************************************)
(* Model of the search orchestrator of the web scraping aggregator:        *)
(* core/orchestrator.py (ScrapingOrchestrator) together with the           *)
(* normalizer and the merger of utils/data_utils.py it calls.  SpecData    *)
(* applies normalize_date, normalize_record, normalize_dataframe,          *)
(* merge_dataframes, filter_results, clean_text, get_search_suggestions    *)
(* and get_scraper_status to inputs drawn from bounded sets; SpecCalls     *)
(* makes several calls in a row on one orchestrator; SpecLimiter is the    *)
(* RateLimiter of utils/http_utils.py under concurrent coroutines.         *)
(*                                                                         *)
(* Python values are encoded as records [kind, s, n, l]:                   *)
(*   kind "none"  None                                                     *)
(*   kind "nan"   float('nan'), the missing-cell marker of a table         *)
(*   kind "str"   a str, s its characters (a sequence of 1-char strings)   *)
(*   kind "num"   an int, n its value; a float, or an int too large for    *)
(*                the integers of the model, carries in s the text str()   *)
(*                gives it                                                 *)
(*   kind "bool"  True (n = 1) or False (n = 0)                            *)
(*   kind "dt"    a datetime, n its seconds since the epoch and s its      *)
(*                timezone: <<>> naive, <<"UTC">> UTC, <<"+02:00">> a      *)
(*                fixed offset                                             *)
(*   kind "list"  a list of str, l its items                               *)
(*   kind "tuple" a tuple, l its items                                     *)
(*   kind "raise" not a value: the call raised the exception whose class   *)
(*                is named in s and whose str() is in l                    *)
(***************************************************************************)
EXTENDS Integers, Sequences, FiniteSets, TLC

VARIABLES
    pc,               \* position of the call in progress
    call,             \* which public method is being called
    selected_sources, \* argument of search_all_sources
    has_callback,     \* progress_callback is not None
    cb_fail_at,       \* the callback raises at its k-th invocation (0: never)
    outcome,          \* what adapter.search does, per selected valid adapter
    api_config,       \* API_CONFIG credentials read by validate_config
    tasks,            \* the units of work handed to asyncio.gather
    settle_order,     \* unit indices in the order their adapter calls settled
    search_calls,     \* adapter.search invocations begun, per adapter
    in_flight,        \* adapter.search invocations in progress, per adapter
    progress,         \* percentages passed to progress_callback, in order
    source_dataframes,\* local of search_all_sources
    source_metadata,  \* local of search_all_sources
    merged_df,        \* local of search_all_sources
    ret_table,        \* table returned by the call
    ret_meta,         \* metadata returned by the call
    single_source,    \* argument of search_single_source
    fn_args,          \* arguments of a call of a function of the data layer
    fn_result,        \* what that call returned or raised
    fn_objects,       \* the tables in memory during a filter_results call
    fn_result_id,     \* which of them filter_results returned (0: none)
    scrapers,         \* self.scrapers: the adapter of each source identifier
    results_cache,    \* self.results_cache
    calls_begun,      \* calls begun on this orchestrator so far
    now,              \* time.time(), in ticks
    delay,            \* RateLimiter.delay, in ticks
    last_request_time,\* RateLimiter.last_request_time
    waiters,          \* the position of each coroutine in RateLimiter.wait
    returns           \* the calls of wait that returned: who and when

vars == <<pc, call, selected_sources, has_callback, cb_fail_at, outcome,
          api_config, tasks, settle_order, search_calls, in_flight, progress,
          source_dataframes, source_metadata, merged_df, ret_table, ret_meta,
          single_source, fn_args, fn_result, fn_objects, fn_result_id,
          scrapers, results_cache, calls_begun, now, delay,
          last_request_time, waiters, returns>>

(***************************************************************************)
(* Bounds of the model.                                                    *)
(***************************************************************************)
MaxSelected == 3

(***************************************************************************)
(* Python values.                                                          *)
(***************************************************************************)
PyNone == [kind |-> "none", s |-> <<>>, n |-> 0, l |-> <<>>]
PyNaN == [kind |-> "nan", s |-> <<>>, n |-> 0, l |-> <<>>]
PyStr(t) == [kind |-> "str", s |-> t, n |-> 0, l |-> <<>>]
PyNum(k) == [kind |-> "num", s |-> <<>>, n |-> k, l |-> <<>>]
PyDate(k, tz) == [kind |-> "dt", s |-> tz, n |-> k, l |-> <<>>]
PyList(items) == [kind |-> "list", s |-> <<>>, n |-> 0, l |-> items]
PyBool(b) == [kind |-> "bool", s |-> <<>>, n |-> IF b THEN 1 ELSE 0, l |-> <<>>]

PyTuple(items) == [kind |-> "tuple", s |-> <<>>, n |-> 0, l |-> items]
\* a float, or an int beyond the integers of the model, given by the text
\* str() gives it
PyBigNum(lit) == [kind |-> "num", s |-> <<lit>>, n |-> 0, l |-> <<>>]
\* the call raised an exception of class exc, with str(e) = msg, instead of
\* returning a value
PyRaise(exc, msg) == [kind |-> "raise", s |-> <<exc>>, n |-> 0, l |-> <<msg>>]

IsRaise(v) == "kind" \in DOMAIN v /\ v.kind = "raise"

UTC == <<"UTC">>
Naive == <<>>
\* timezone(timedelta(hours=2))
Plus2 == <<"+02:00">>

\* Python truthiness of a value (bool(v))
Truthy(v) ==
    CASE v.kind = "none" -> FALSE
      [] v.kind = "nan" -> TRUE
      [] v.kind = "str" -> v.s # <<>>
      [] v.kind = "num" -> v.n # 0 \/ v.s # <<>>
      [] v.kind = "bool" -> v.n # 0
      [] v.kind = "dt" -> TRUE
      [] v.kind = "list" -> v.l # <<>>
      [] v.kind = "tuple" -> v.l # <<>>

RECURSIVE Digits(_)
Digits(k) ==
    IF k < 10 THEN <<<<"0", "1", "2", "3", "4", "5", "6", "7", "8", "9">>[k + 1]>>
    ELSE Digits(k \div 10) \o Digits(k % 10)

\* str(v) for a datetime v: isoformat(sep=' ') of the wall clock in the
\* datetime's own timezone, then its UTC offset if it has one
DatetimeStr(v) ==
    LET Padded(k, width) ==
            LET d == Digits(k)
            IN  [i \in 1..(width - Len(d)) |-> "0"] \o d
        wall == v.n + (IF v.s = Plus2 THEN 7200 ELSE 0)
        days == wall \div 86400
        \* the days from 1970-01-01 to the first of January of year y
        DaysBefore(y) ==
            365 * (y - 1970) + ((y - 1) \div 4) - ((y - 1) \div 100)
                + ((y - 1) \div 400) - 477
        IsLeap(y) == y % 4 = 0 /\ (y % 100 # 0 \/ y % 400 = 0)
        \* the days of year y before its month m
        MonthStart(y, m) ==
            <<0, 31, 59, 90, 120, 151, 181, 212, 243, 273, 304, 334, 365>>[m]
                + (IF m > 2 /\ IsLeap(y) THEN 1 ELSE 0)
    IN  LET year == CHOOSE y \in (1969 + days \div 365)..(1971 + days \div 366) :
                        DaysBefore(y) <= days /\ days < DaysBefore(y + 1)
        IN  LET month == CHOOSE m \in 1..12 :
                             /\ MonthStart(year, m) <= days - DaysBefore(year)
                             /\ days - DaysBefore(year) < MonthStart(year, m + 1)
            IN  Padded(year, 4) \o <<"-">> \o Padded(month, 2) \o <<"-">>
                \o Padded(days - DaysBefore(year) - MonthStart(year, month) + 1, 2)
                \o <<" ">> \o Padded((wall % 86400) \div 3600, 2)
                \o <<":">> \o Padded((wall % 3600) \div 60, 2)
                \o <<":">> \o Padded(wall % 60, 2)
                \o (IF v.s = UTC THEN <<"+", "0", "0", ":", "0", "0">>
                    ELSE IF v.s = Plus2
                    THEN <<"+", "0", "2", ":", "0", "0">>
                    ELSE <<>>)

\* str(v) for a list v of str: the repr of each item, in double quotes when
\* it holds a single quote and no double quote, in single quotes otherwise
ListStr(v) ==
    LET Quote(t) ==
            IF (\E i \in 1..Len(t) : t[i] = "'")
               /\ ~(\E i \in 1..Len(t) : t[i] = "\"")
            THEN "\"" ELSE "'"
        Escaped(c, q) ==
            CASE c = "\\" -> <<"\\", "\\">>
              [] c = "\n" -> <<"\\", "n">>
              [] c = "\t" -> <<"\\", "t">>
              [] c = q -> <<"\\", q>>
              [] OTHER -> <<c>>
        RECURSIVE EscapedAll(_, _)
        EscapedAll(t, q) ==
            IF t = <<>> THEN <<>>
            ELSE Escaped(Head(t), q) \o EscapedAll(Tail(t), q)
        Repr(t) == <<Quote(t)>> \o EscapedAll(t, Quote(t)) \o <<Quote(t)>>
        RECURSIVE ReprItems(_)
        ReprItems(items) ==
            IF items = <<>> THEN <<>>
            ELSE IF Len(items) = 1 THEN Repr(Head(items))
            ELSE Repr(Head(items)) \o <<",", " ">> \o ReprItems(Tail(items))
    IN  <<"[">> \o ReprItems(v.l) \o <<"]">>

\* str(v) for a None, a float('nan'), a str, a number, a bool, a datetime
\* or a list of str
PyStrOf(v) ==
    CASE v.kind = "str" -> v.s
      [] v.kind = "nan" -> <<"n", "a", "n">>
      [] v.kind = "none" -> <<"N", "o", "n", "e">>
      [] v.kind = "bool" ->
            IF v.n # 0 THEN <<"T", "r", "u", "e">>
            ELSE <<"F", "a", "l", "s", "e">>
      [] v.kind = "num" ->
            IF v.s # <<>> THEN v.s
            ELSE IF v.n < 0 THEN <<"-">> \o Digits(0 - v.n)
            ELSE Digits(v.n)
      [] v.kind = "dt" -> DatetimeStr(v)
      [] v.kind = "list" -> ListStr(v)

(***************************************************************************)
(* DataNormalizer.clean_text                                               *)
(***************************************************************************)
\* the characters re's \s matches in the texts of the model
IsSpace(c) == c \in {" ", "\n", "\t"}

RECURSIVE DropSpaces(_)
DropSpaces(t) ==
    IF t # <<>> /\ IsSpace(Head(t)) THEN DropSpaces(Tail(t)) ELSE t

\* re.sub(r'\s+', ' ', text)
RECURSIVE CollapseSpaces(_)
CollapseSpaces(t) ==
    IF t = <<>> THEN <<>>
    ELSE IF IsSpace(Head(t)) THEN <<" ">> \o CollapseSpaces(DropSpaces(t))
    ELSE <<Head(t)>> \o CollapseSpaces(Tail(t))

RECURSIVE DropTrailingSpaces(_)
DropTrailingSpaces(t) ==
    IF t # <<>> /\ IsSpace(t[Len(t)])
    THEN DropTrailingSpaces(SubSeq(t, 1, Len(t) - 1))
    ELSE t

\* str.strip()
Strip(t) == DropTrailingSpaces(DropSpaces(t))

\* position of the first c in t from position i on, 0 when there is none
RECURSIVE IndexFrom(_, _, _)
IndexFrom(t, c, i) ==
    IF i > Len(t) THEN 0
    ELSE IF t[i] = c THEN i
    ELSE IndexFrom(t, c, i + 1)

\* position of the first c in t, 0 when there is none
IndexOf(t, c) == IndexFrom(t, c, 1)

\* re.sub(r'<[^>]+>', '', text): leftmost matches, each '<', one or more
\* characters other than '>', then '>'
RECURSIVE RemoveTags(_)
RemoveTags(t) ==
    IF t = <<>> THEN <<>>
    ELSE IF Head(t) = "<"
    THEN LET j == IndexOf(Tail(t), ">")
         IN  IF j = 0 THEN t
             ELSE IF j = 1 THEN <<"<">> \o RemoveTags(Tail(t))
             ELSE RemoveTags(SubSeq(t, j + 2, Len(t)))
    ELSE <<Head(t)>> \o RemoveTags(Tail(t))

\* the named character references of html.entities.html5 that the texts of
\* the model can spell (each also exists without its semicolon)
Html5Names == {<<"l", "t">>, <<"g", "t">>, <<"a", "m", "p">>}

Html5Char(name) ==
    CASE name = <<"l", "t">> -> "<"
      [] name = <<"g", "t">> -> ">"
      [] name = <<"a", "m", "p">> -> "&"

\* characters that end the name of a character reference
EndsName(c) == c \in {"\t", "\n", " ", "<", "&", "#", ";"}

RECURSIVE NameRun(_)
NameRun(t) ==
    IF t = <<>> \/ EndsName(Head(t)) THEN <<>>
    ELSE <<Head(t)>> \o NameRun(Tail(t))

\* the longest prefix of name that is a known reference (html.unescape
\* tries the whole name, then its prefixes of length len-1 down to 2)
RECURSIVE KnownPrefix(_, _)
KnownPrefix(name, k) ==
    IF k < 2 THEN 0
    ELSE IF SubSeq(name, 1, k) \in Html5Names THEN k
    ELSE KnownPrefix(name, k - 1)

\* html.unescape(text)
RECURSIVE Unescape(_)
Unescape(t) ==
    IF t = <<>> THEN <<>>
    ELSE IF Head(t) # "&" THEN <<Head(t)>> \o Unescape(Tail(t))
    ELSE LET name == NameRun(Tail(t))
             after == SubSeq(t, Len(name) + 2, Len(t))
             semi == after # <<>> /\ Head(after) = ";"
             k == KnownPrefix(name, Len(name))
         IN  IF name = <<>> THEN <<"&">> \o Unescape(Tail(t))
             ELSE IF k = Len(name)
             THEN <<Html5Char(name)>>
                  \o Unescape(IF semi THEN Tail(after) ELSE after)
             ELSE IF k > 0
             THEN <<Html5Char(SubSeq(name, 1, k))>>
                  \o SubSeq(name, k + 1, Len(name))
                  \o (IF semi THEN <<";">> ELSE <<>>)
                  \o Unescape(IF semi THEN Tail(after) ELSE after)
             ELSE <<"&">> \o name \o (IF semi THEN <<";">> ELSE <<>>)
                  \o Unescape(IF semi THEN Tail(after) ELSE after)

\* clean_text(text), the characters of the str it returns
clean_text(text) ==
    IF ~Truthy(text) THEN <<>>
    ELSE Unescape(RemoveTags(Strip(CollapseSpaces(PyStrOf(text)))))

(***************************************************************************)
(* DataNormalizer.normalize_date                                           *)
(***************************************************************************)
\* dateutil's parser.parse on the date strings of the model: the seconds
\* since the epoch of the instant an ISO date-time names (of its wall clock
\* read as UTC when it names no timezone), -1 for a string it rejects
\* (ParserError)
DateutilParse(t) ==
    CASE t = <<"1970-01-01T00:00:04Z">> -> 4
      [] t = <<"1970-01-01T00:00:06Z">> -> 6
      [] t = <<"1970-01-01T02:00:03+02:00">> -> 3
      [] t = <<"1970-01-01 00:00:02">> -> 2
      [] OTHER -> -1

\* the tzinfo of the datetime parser.parse returns
DateutilTz(t) ==
    CASE t = <<"1970-01-01T02:00:03+02:00">> -> Plus2
      [] t = <<"1970-01-01 00:00:02">> -> Naive
      [] OTHER -> UTC

\* what datetime.fromtimestamp(x, tz=timezone.utc) raises on the numbers
\* of the model it cannot convert: the year is out of range (ValueError),
\* the number is out of the range of the platform's time_t (OverflowError),
\* or the C library refuses it (OSError)
FromTimestampError(x) ==
    CASE x.s = <<"253402300800">> ->
            PyRaise("ValueError", "year 10000 is out of range")
      [] x.s \in {<<"1e+20">>, <<"-1e+20">>, <<"inf">>, <<"-inf">>} ->
            PyRaise("OverflowError",
                    "timestamp out of range for platform time_t")
      [] x.s = <<"1.7e+18">> ->
            PyRaise("OSError",
                    "[Errno 75] Value too large for defined data type")

\* except (ValueError, TypeError, parser.ParserError)
CaughtByNormalizeDate == {"ValueError", "TypeError", "ParserError"}

normalize_date(date_input) ==
    CASE date_input.kind = "none" -> PyNone
      [] date_input.kind = "dt" ->
            IF date_input.s = Naive THEN PyDate(date_input.n, UTC)
            ELSE date_input
      [] date_input.kind = "num" ->
            IF date_input.s = <<>> THEN PyDate(date_input.n, UTC)
            ELSE IF FromTimestampError(date_input).s[1]
                        \in CaughtByNormalizeDate
            THEN PyNone
            ELSE FromTimestampError(date_input)
      [] date_input.kind = "bool" -> PyDate(date_input.n, UTC)
      [] date_input.kind = "nan" -> PyNone
      [] date_input.kind = "str" ->
            IF DateutilParse(date_input.s) < 0 THEN PyNone
            ELSE IF DateutilTz(date_input.s) = Naive
            THEN PyDate(DateutilParse(date_input.s), UTC)
            ELSE PyDate(DateutilParse(date_input.s),
                        DateutilTz(date_input.s))
      [] OTHER -> PyNone

(***************************************************************************)
(* DataNormalizer.normalize_record                                         *)
(***************************************************************************)
standard_fields ==
    <<"source", "title", "body", "author", "date", "url", "score",
      "comments_count", "tags">>

title_fields == <<"title", "subject", "name", "question_title">>
body_fields ==
    <<"body", "content", "text", "description", "question_body", "selftext">>
author_fields == <<"author", "user", "username", "display_name", "owner">>
date_fields ==
    <<"created_utc", "created_at", "date", "timestamp", "creation_date">>
url_fields == <<"url", "permalink", "link", "html_url">>
score_fields == <<"score", "ups", "upvotes", "votes", "points">>
comments_fields ==
    <<"num_comments", "comments", "comment_count", "answer_count">>

\* a lookup that gives None, not the default, when no candidate is there
RECURSIVE get_first_available_null(_, _, _)
get_first_available_null(record, field_names, default) ==
    IF field_names = <<>> THEN PyNone
    ELSE IF Head(field_names) \in DOMAIN record
            /\ record[Head(field_names)].kind # "none"
    THEN record[Head(field_names)]
    ELSE get_first_available_null(record, Tail(field_names), default)

\* a lookup in which the last candidate that is there wins
RECURSIVE get_last_available(_, _, _)
get_last_available(record, field_names, default) ==
    IF field_names = <<>> THEN default
    ELSE IF field_names[Len(field_names)] \in DOMAIN record
            /\ record[field_names[Len(field_names)]].kind # "none"
    THEN record[field_names[Len(field_names)]]
    ELSE get_last_available(record,
                            SubSeq(field_names, 1, Len(field_names) - 1),
                            default)

RECURSIVE get_first_available(_, _, _)
get_first_available(record, field_names, default) ==
    IF field_names = <<>> THEN default
    ELSE IF Head(field_names) \in DOMAIN record
            /\ record[Head(field_names)].kind # "none"
    THEN record[Head(field_names)]
    ELSE get_first_available(record, Tail(field_names), default)

\* tags.split(","), the pieces of a comma-separated str
RECURSIVE SplitCommas(_)
SplitCommas(t) ==
    LET k == IndexOf(t, ",")
    IN  IF k = 0 THEN <<t>>
        ELSE <<SubSeq(t, 1, k - 1)>> \o SplitCommas(SubSeq(t, k + 1, Len(t)))

RECURSIVE StripNonEmpty(_)
StripNonEmpty(pieces) ==
    IF pieces = <<>> THEN <<>>
    ELSE IF Strip(Head(pieces)) = <<>> THEN StripNonEmpty(Tail(pieces))
    ELSE <<Strip(Head(pieces))>> \o StripNonEmpty(Tail(pieces))

normalize_tags(record) ==
    IF "tags" \notin DOMAIN record THEN <<>>
    ELSE IF record["tags"].kind = "list" THEN record["tags"].l
    ELSE IF record["tags"].kind = "str"
    THEN StripNonEmpty(SplitCommas(record["tags"].s))
    ELSE <<>>

\* a normalization in which the raw mapping's own source key wins
normalize_record_keeps_source(record, source) ==
    LET title == get_first_available(record, title_fields, PyNone)
        body == get_first_available(record, body_fields, PyNone)
        date == normalize_date(
                    get_first_available(record, date_fields, PyNone))
    IN  IF IsRaise(date) THEN date
        ELSE
        [source |-> IF "source" \in DOMAIN record THEN record["source"]
                    ELSE PyStr(<<source>>),
         title |-> IF Truthy(title) THEN PyStr(clean_text(title)) ELSE title,
         body |-> IF Truthy(body) THEN PyStr(clean_text(body)) ELSE body,
         author |-> get_first_available(record, author_fields, PyNone),
         date |-> date,
         url |-> get_first_available(record, url_fields, PyNone),
         score |-> get_first_available(record, score_fields, PyNum(0)),
         comments_count |->
             get_first_available(record, comments_fields, PyNum(0)),
         tags |-> PyList(normalize_tags(record))]

normalize_record(record, source) ==
    LET title == get_first_available(record, title_fields, PyNone)
        body == get_first_available(record, body_fields, PyNone)
        date == normalize_date(
                    get_first_available(record, date_fields, PyNone))
    IN  IF IsRaise(date) THEN date
        ELSE
        [source |-> PyStr(<<source>>),
         title |-> IF Truthy(title) THEN PyStr(clean_text(title)) ELSE title,
         body |-> IF Truthy(body) THEN PyStr(clean_text(body)) ELSE body,
         author |-> get_first_available(record, author_fields, PyNone),
         date |-> date,
         url |-> get_first_available(record, url_fields, PyNone),
         score |-> get_first_available(record, score_fields, PyNum(0)),
         comments_count |->
             get_first_available(record, comments_fields, PyNum(0)),
         tags |-> PyList(normalize_tags(record))]

(***************************************************************************)
(* Tables (pandas DataFrame): the column names and the rows in index       *)
(* order, each row a mapping from the column names to values.              *)
(***************************************************************************)
\* pd.DataFrame()
EmptyFrame == [columns |-> <<>>, rows |-> <<>>, index |-> <<>>]

\* the index labels 0, 1, ..., n-1
RangeIndex(n) == [i \in 1..n |-> i - 1]

\* df.empty
IsEmptyFrame(df) == df.rows = <<>> \/ df.columns = <<>>

\* len(df)
FrameLen(df) == Len(df.rows)

(***************************************************************************)
(* DataNormalizer.normalize_dataframe                                      *)
(***************************************************************************)
normalize_dataframe(df, source) ==
    IF IsEmptyFrame(df)
    THEN [columns |-> standard_fields, rows |-> <<>>, index |-> <<>>]
    ELSE LET normalized_records ==
                 [i \in 1..Len(df.rows) |->
                     normalize_record(df.rows[i], source)]
             raising == {i \in 1..Len(df.rows) :
                            IsRaise(normalized_records[i])}
         IN  IF raising # {}
             THEN normalized_records[CHOOSE i \in raising :
                                        \A j \in raising : i <= j]
             ELSE [columns |-> standard_fields,
                   rows |-> normalized_records,
                   index |-> RangeIndex(Len(df.rows))]

(***************************************************************************)
(* merge_dataframes                                                        *)
(***************************************************************************)
Range(f) == {f[i] : i \in DOMAIN f}

RECURSIVE SelectFrames(_)
SelectFrames(dataframes) ==
    IF dataframes = <<>> THEN <<>>
    ELSE IF IsEmptyFrame(Head(dataframes)) THEN SelectFrames(Tail(dataframes))
    ELSE <<Head(dataframes)>> \o SelectFrames(Tail(dataframes))

\* the columns of cols followed by those of more that cols does not have
RECURSIVE UnionColumns(_, _)
UnionColumns(cols, more) ==
    IF more = <<>> THEN cols
    ELSE IF Head(more) \in Range(cols) THEN UnionColumns(cols, Tail(more))
    ELSE UnionColumns(Append(cols, Head(more)), Tail(more))

RECURSIVE ConcatColumns(_)
ConcatColumns(dataframes) ==
    IF dataframes = <<>> THEN <<>>
    ELSE UnionColumns(Head(dataframes).columns,
                      ConcatColumns(Tail(dataframes)))

RECURSIVE ConcatRows(_)
ConcatRows(dataframes) ==
    IF dataframes = <<>> THEN <<>>
    ELSE Head(dataframes).rows \o ConcatRows(Tail(dataframes))

\* a concatenation that keeps one row of every group of equal rows
pd_concat_drop_duplicates(dataframes) ==
    LET cols == ConcatColumns(dataframes)
        all == ConcatRows(dataframes)
        RECURSIVE FirstOnes(_)
        FirstOnes(i) ==
            IF i > Len(all) THEN <<>>
            ELSE IF \E j \in 1..(i - 1) : all[j] = all[i]
            THEN FirstOnes(i + 1)
            ELSE <<all[i]>> \o FirstOnes(i + 1)
        rows == FirstOnes(1)
    IN  [columns |-> cols,
         rows |-> [i \in 1..Len(rows) |->
                      [c \in Range(cols) |->
                          IF c \in DOMAIN rows[i] THEN rows[i][c]
                          ELSE PyNaN]],
         index |-> RangeIndex(Len(rows))]

\* pd.concat(dataframes, ignore_index=True): a cell of a column its table
\* does not have is the missing-value marker
pd_concat(dataframes) ==
    LET cols == ConcatColumns(dataframes)
        rows == ConcatRows(dataframes)
    IN  [columns |-> cols,
         rows |-> [i \in 1..Len(rows) |->
                      [c \in Range(cols) |->
                          IF c \in DOMAIN rows[i] THEN rows[i][c]
                          ELSE PyNaN]],
         index |-> RangeIndex(Len(rows))]

\* a date the sort treats as missing (NaT)
IsNaT(row) == row["date"].kind # "dt"

RECURSIVE SelectRows(_, _)
SelectRows(rows, missing) ==
    IF rows = <<>> THEN <<>>
    ELSE IF IsNaT(Head(rows)) = missing
    THEN <<Head(rows)>> \o SelectRows(Tail(rows), missing)
    ELSE SelectRows(Tail(rows), missing)

\* row placed after the rows of the sorted table that are not older than it
RECURSIVE InsertByDate(_, _)
InsertByDate(sorted, row) ==
    IF sorted = <<>> THEN <<row>>
    ELSE IF Head(sorted)["date"].n >= row["date"].n
    THEN <<Head(sorted)>> \o InsertByDate(Tail(sorted), row)
    ELSE <<row>> \o sorted

RECURSIVE SortDated(_)
SortDated(rows) ==
    IF rows = <<>> THEN <<>>
    ELSE InsertByDate(SortDated(SubSeq(rows, 1, Len(rows) - 1)),
                      rows[Len(rows)])

\* df.sort_values("date", ascending=False): newest first, equal dates in
\* their order of arrival, rows without a date last; every row keeps its
\* index label
sort_values_date_desc(df) ==
    LET keyed == [i \in 1..Len(df.rows) |->
                     [date |-> df.rows[i]["date"], pos |-> i]]
        order == SortDated(SelectRows(keyed, FALSE))
                 \o SelectRows(keyed, TRUE)
    IN  [columns |-> df.columns,
         rows |-> [k \in 1..Len(order) |-> df.rows[order[k].pos]],
         index |-> [k \in 1..Len(order) |-> df.index[order[k].pos]]]

\* a table that keeps its index labels
reset_index_skipped(df) == df

\* df.reset_index(drop=True)
reset_index(df) == [df EXCEPT !.index = RangeIndex(Len(df.rows))]

merge_dataframes(dataframes) ==
    IF dataframes = <<>> THEN EmptyFrame
    ELSE IF SelectFrames(dataframes) = <<>> THEN EmptyFrame
    ELSE LET merged == pd_concat(SelectFrames(dataframes))
         IN  reset_index(IF "date" \in Range(merged.columns)
                         THEN sort_values_date_desc(merged)
                         ELSE merged)

(***************************************************************************)
(* ScrapingOrchestrator.filter_results                                     *)
(***************************************************************************)
UpperCase ==
    <<"A", "B", "C", "D", "E", "F", "G", "H", "I", "J", "K", "L", "M", "N",
      "O", "P", "Q", "R", "S", "T", "U", "V", "W", "X", "Y", "Z">>
LowerCase ==
    <<"a", "b", "c", "d", "e", "f", "g", "h", "i", "j", "k", "l", "m", "n",
      "o", "p", "q", "r", "s", "t", "u", "v", "w", "x", "y", "z">>

LowerChar(c) ==
    IF \E k \in 1..26 : UpperCase[k] = c
    THEN LowerCase[CHOOSE k \in 1..26 : UpperCase[k] = c]
    ELSE c

\* str.lower()
Lower(t) == [i \in 1..Len(t) |-> LowerChar(t[i])]

\* the re.error re.compile(pat) raises, None when it raises none: among
\* the patterns of the model, those that close a group they did not open
\* (reported where it happens) and those that leave a group open (the
\* innermost one is reported)
RegexError(pat) ==
    LET Depth(k) ==
            Cardinality({i \in 1..k : pat[i] = "("})
                - Cardinality({i \in 1..k : pat[i] = ")"})
        unopened == {k \in 1..Len(pat) : Depth(k) < 0}
        unclosed ==
            {k \in 1..Len(pat) :
                /\ pat[k] = "("
                /\ \A j \in k..Len(pat) : Depth(j) >= Depth(k)}
        First(S) == CHOOSE k \in S : \A j \in S : k <= j
        Last(S) == CHOOSE k \in S : \A j \in S : k >= j
    IN  IF unopened # {}
        THEN PyRaise("re.error",
                     "unbalanced parenthesis at position "
                         \o ToString(First(unopened) - 1))
        ELSE IF unclosed # {}
        THEN PyRaise("re.error",
                     "missing ), unterminated subpattern at position "
                         \o ToString(Last(unclosed) - 1))
        ELSE PyNone

\* the pattern matches t at position i: "." matches any character but a
\* newline, a letter or a space matches itself
RegexMatchAt(pat, t, i) ==
    \A k \in 1..Len(pat) :
        IF pat[k] = "." THEN t[i + k - 1] # "\n" ELSE t[i + k - 1] = pat[k]

\* re.search(pat, t) finds a match
RegexSearch(pat, t) ==
    \E i \in 1..(Len(t) - Len(pat) + 1) : RegexMatchAt(pat, t, i)

\* Series.str.lower().str.contains(pat, na=False) on one cell: a cell that
\* is not a str gives False
StrContains(cell, pat) ==
    cell.kind = "str" /\ RegexSearch(pat, Lower(cell.s))

\* df[mask]: the rows the mask keeps, with their index labels
BooleanIndex(df, keep) ==
    LET RECURSIVE Kept(_)
        Kept(i) ==
            IF i > Len(df.rows) THEN <<>>
            ELSE IF keep[i] THEN <<i>> \o Kept(i + 1)
            ELSE Kept(i + 1)
        kept == Kept(1)
    IN  [columns |-> df.columns,
         rows |-> [k \in 1..Len(kept) |-> df.rows[kept[k]]],
         index |-> [k \in 1..Len(kept) |-> df.index[kept[k]]]]

\* lines 299-300
filter_by_source(df, source_filter) ==
    IF Truthy(source_filter)
    THEN BooleanIndex(df,
             [i \in 1..Len(df.rows) |->
                 \E k \in 1..Len(source_filter.l) :
                     source_filter.l[k] = df.rows[i]["source"].s])
    ELSE df

\* lines 303-308: a comparison with a missing date is False
filter_by_date(df, date_range) ==
    IF Truthy(date_range) /\ "date" \in Range(df.columns)
    THEN BooleanIndex(df,
             [i \in 1..Len(df.rows) |->
                 /\ df.rows[i]["date"].kind = "dt"
                 /\ df.rows[i]["date"].n >= date_range.l[1].n
                 /\ df.rows[i]["date"].n <= date_range.l[2].n])
    ELSE df

\* lines 311-312: a comparison with a missing score is False
filter_by_score(df, min_score) ==
    IF min_score.kind # "none" /\ "score" \in Range(df.columns)
    THEN BooleanIndex(df,
             [i \in 1..Len(df.rows) |->
                 /\ df.rows[i]["score"].kind = "num"
                 /\ df.rows[i]["score"].n >= min_score.n])
    ELSE df

\* lines 315-321
filter_by_keyword(df, keyword_filter) ==
    IF Truthy(keyword_filter)
    THEN LET keyword_lower == Lower(keyword_filter.s)
         IN  IF IsRaise(RegexError(keyword_lower))
             THEN RegexError(keyword_lower)
             ELSE BooleanIndex(df,
                      [i \in 1..Len(df.rows) |->
                          \/ StrContains(df.rows[i]["title"], keyword_lower)
                          \/ StrContains(df.rows[i]["body"], keyword_lower)])
    ELSE df

\* Tables are objects: objects[k] is the table of identity k. A pandas
\* operation that returns a table makes a new object and leaves the
\* objects it reads as they are.
NewObject(mem, df) ==
    [objects |-> Append(mem.objects, df), id |-> Len(mem.objects) + 1]

\* filter_results on the table of identity id: the objects when the call
\* returns and the identity of the table returned, or the exception raised
filter_results_objects(objects, id, source_filter, date_range, min_score, keyword_filter) ==
    LET df == objects[id]
        \* line 296: filtered_df = df.copy()
        copied == NewObject([objects |-> objects, id |-> id], df)
        \* lines 299-300
        by_source ==
            IF Truthy(source_filter)
            THEN NewObject(copied, filter_by_source(df, source_filter))
            ELSE copied
        \* lines 303-308
        by_date ==
            IF Truthy(date_range) /\ "date" \in Range(df.columns)
            THEN NewObject(by_source,
                     filter_by_date(by_source.objects[by_source.id],
                                    date_range))
            ELSE by_source
        \* lines 311-312
        by_score ==
            IF min_score.kind # "none" /\ "score" \in Range(df.columns)
            THEN NewObject(by_date,
                     filter_by_score(by_date.objects[by_date.id], min_score))
            ELSE by_date
        \* lines 315-321
        by_keyword ==
            filter_by_keyword(by_score.objects[by_score.id], keyword_filter)
    IN  IF IsEmptyFrame(df)
        THEN [objects |-> objects, id |-> id]
        ELSE IF IsRaise(by_keyword) THEN by_keyword
        ELSE NewObject(
                 IF Truthy(keyword_filter)
                 THEN NewObject(by_score, by_keyword) ELSE by_score,
                 reset_index(by_keyword))

\* filter_results(df, source_filter, date_range, min_score, keyword_filter):
\* the table returned, or the exception raised
filter_results(df, source_filter, date_range, min_score, keyword_filter) ==
    LET r == filter_results_objects(<<df>>, 1, source_filter, date_range,
                                    min_score, keyword_filter)
    IN  IF IsRaise(r) THEN r ELSE r.objects[r.id]

(***************************************************************************)
(* ScrapingOrchestrator.get_search_suggestions.  A str is the sequence of  *)
(* its characters.                                                         *)
(***************************************************************************)
\* str.split(): the maximal runs of characters that are not whitespace
RECURSIVE Split(_)
Split(t) ==
    LET s == DropSpaces(t)
        RECURSIVE WordLen(_)
        WordLen(k) ==
            IF k < Len(s) /\ ~IsSpace(s[k + 1]) THEN WordLen(k + 1) ELSE k
        n == WordLen(0)
    IN  IF s = <<>> THEN <<>>
        ELSE <<SubSeq(s, 1, n)>> \o Split(SubSeq(s, n + 1, Len(s)))

\* f'"{word}"'
Quoted(word) == <<"\"">> \o word \o <<"\"">>

\* x in t, for two str
InStr(x, t) ==
    \E i \in 1..(Len(t) - Len(x) + 1) : SubSeq(t, i, i + Len(x) - 1) = x

\* line 344
construction_indicators ==
    {<<"r", "o", "o", "f">>,
     <<"c", "o", "n", "s", "t", "r", "u", "c", "t", "i", "o", "n">>,
     <<"b", "u", "i", "l", "d", "i", "n", "g">>,
     <<"c", "o", "n", "t", "r", "a", "c", "t", "o", "r">>,
     <<"r", "e", "p", "a", "i", "r">>, <<"i", "n", "s", "t", "a", "l", "l">>,
     <<"m", "a", "t", "e", "r", "i", "a", "l">>,
     <<"L", "a", "t", "v", "i", "a">>, <<"R", "i", "g", "a">>}

\* line 347
construction_terms ==
    <<<<"L", "a", "t", "v", "i", "a">>, <<"R", "i", "g", "a">>,
      <<"c", "o", "n", "t", "r", "a", "c", "t", "o", "r">>,
      <<"i", "n", "s", "t", "a", "l", "l", "a", "t", "i", "o", "n">>,
      <<"r", "e", "p", "a", "i", "r">>,
      <<"m", "a", "t", "e", "r", "i", "a", "l", "s">>, <<"c", "o", "s", "t">>>>

\* the items of q that satisfy keep, in their order
SelectSeqBy(q, keep) ==
    LET RECURSIVE Sel(_)
        Sel(i) ==
            IF i > Len(q) THEN <<>>
            ELSE IF keep[i] THEN <<q[i]>> \o Sel(i + 1)
            ELSE Sel(i + 1)
    IN  Sel(1)

\* get_search_suggestions(query)
get_search_suggestions(query) ==
    LET query_words == Split(Lower(query))
        n == Len(query_words)
        \* lines 334-341
        words ==
            IF n > 1
            THEN SelectSeqBy([i \in 1..n |-> Quoted(query_words[i])],
                             [i \in 1..n |-> Len(query_words[i]) > 3])
            ELSE <<>>
        combos ==
            IF n > 1
            THEN [i \in 1..(n - 1) |->
                     Quoted(query_words[i] \o <<" ">> \o query_words[i + 1])]
            ELSE <<>>
        \* lines 345-350
        query_tokens == Range(query_words)
        terms ==
            IF query_tokens \cap construction_indicators # {}
            THEN SelectSeqBy(
                     [i \in 1..Len(construction_terms) |->
                         query \o <<" ">> \o construction_terms[i]],
                     [i \in 1..Len(construction_terms) |->
                         ~InStr(Lower(construction_terms[i]), Lower(query))])
            ELSE <<>>
        suggestions == words \o combos \o terms
    IN  \* line 352: suggestions[:10]
        SubSeq(suggestions, 1,
               IF Len(suggestions) < 10 THEN Len(suggestions) ELSE 10)

(***************************************************************************)
(* The inputs of the model: source identifiers a caller may select, what   *)
(* an adapter's search may do, and the credentials of the configuration.   *)
(***************************************************************************)
\* ScrapingOrchestrator.__init__: the keys of self.scrapers
ScraperKeys == {"reddit", "forums", "news", "classifieds", "suppliers"}

\* identifiers a caller passes: two adapters of the mapping and one
\* identifier the mapping does not have
SourceIds == {"reddit", "news", "github"}

RawTableA ==
    [columns |-> <<"title", "created_utc", "score", "source">>,
     index |-> RangeIndex(2),
     rows |-> <<
        [title |-> PyStr(<<"R", "o", "o", "f">>), created_utc |-> PyNum(5),
         score |-> PyNum(3), source |-> PyStr(<<"raw">>)],
        [title |-> PyStr(<<" ", "<", "b", ">", "a", " ", " ", "b">>),
         created_utc |-> PyNaN, score |-> PyNum(1),
         source |-> PyStr(<<"raw">>)] >>]

RawTableB ==
    [columns |-> <<"subject", "created_at", "url", "tags">>,
     index |-> RangeIndex(1),
     rows |-> <<
        [subject |-> PyStr(<<"a", "&", "l", "t", ";", "b">>),
         created_at |-> PyStr(<<"1970-01-01T00:00:06Z">>),
         url |-> PyStr(<<"u">>),
         tags |-> PyStr(<<"x", ",", " ", "y">>)] >>]

RawTables == {EmptyFrame, RawTableA, RawTableB}

\* a raw table whose second record has a date normalize_date raises on
RawTableBad ==
    [columns |-> <<"title", "created_utc">>,
     index |-> RangeIndex(3),
     rows |-> <<
        [title |-> PyStr(<<"o", "n", "e">>), created_utc |-> PyNum(5)],
        [title |-> PyStr(<<"t", "w", "o">>),
         created_utc |-> PyBigNum("1e+20")],
        [title |-> PyStr(<<"s", "i", "x">>), created_utc |-> PyNum(6)] >>]

AdapterRaises == [raises |-> TRUE, error |-> "adapter error", df |-> EmptyFrame]
AdapterReturns(df) == [raises |-> FALSE, error |-> "", df |-> df]

\* what scraper.search does: it raises, or it returns a table, one whose
\* normalization raises among them
Outcomes ==
    {AdapterRaises}
        \cup {AdapterReturns(df) : df \in RawTables \cup {RawTableBad}}

\* API_CONFIG: the Reddit credentials are set or absent
ApiConfigs ==
    {[REDDIT_CLIENT_ID |-> PyNone, REDDIT_CLIENT_SECRET |-> PyNone,
      REDDIT_USER_AGENT |-> PyStr(<<"agent">>)],
     [REDDIT_CLIENT_ID |-> PyStr(<<"id">>),
      REDDIT_CLIENT_SECRET |-> PyStr(<<"secret">>),
      REDDIT_USER_AGENT |-> PyStr(<<"agent">>)]}

\* x and y
PyAnd(x, y) == IF Truthy(x) THEN y ELSE x

\* scraper.validate_config(), the value it returns
validate_config(source) ==
    IF source = "reddit"
    THEN PyAnd(PyAnd(api_config.REDDIT_CLIENT_ID,
                     api_config.REDDIT_CLIENT_SECRET),
               api_config.REDDIT_USER_AGENT)
    ELSE PyBool(TRUE)

(***************************************************************************)
(* ScrapingOrchestrator.get_scraper_status                                 *)
(***************************************************************************)
\* config.settings.DATA_SOURCES.get(source, source)
DATA_SOURCES_get(source) ==
    CASE source = "reddit" -> "Reddit"
      [] source = "github" -> "GitHub Issues/Discussions"
      [] source = "stackoverflow" -> "Stack Overflow"
      [] source = "forums" -> "Generic Forums"
      [] OTHER -> source

\* get_scraper_status(): one entry per key of self.scrapers
get_scraper_status ==
    [source \in ScraperKeys |->
        [name |-> DATA_SOURCES_get(source),
         configured |-> validate_config(source),
         available |-> TRUE]]

(***************************************************************************)
(* ScrapingOrchestrator.search_all_sources                                 *)
(***************************************************************************)
\* [src for src in selected_sources if src in self.scrapers]
RECURSIVE valid_sources_of(_)
valid_sources_of(selected) ==
    IF selected = <<>> THEN <<>>
    ELSE IF Head(selected) \in ScraperKeys
    THEN <<Head(selected)>> \o valid_sources_of(Tail(selected))
    ELSE valid_sources_of(Tail(selected))

valid_sources == valid_sources_of(selected_sources)

NoResult == [is_exception |-> FALSE, error |-> "", df |-> EmptyFrame, metadata |-> <<>>]

\* a (df, metadata) pair returned by a unit of work
Pair(df, metadata) ==
    [is_exception |-> FALSE, error |-> "", df |-> df, metadata |-> metadata]

\* the progress_callback raises at this invocation
CallbackRaises == has_callback /\ cb_fail_at = Len(progress) + 1

CallbackError == "callback error"

\* a progress that counts the sources from one
source_progress_from_one(source_index, total_sources) ==
    ((source_index + 1) * 80) \div total_sources

\* int((source_index / total_sources) * 80)
source_progress(source_index, total_sources) ==
    (source_index * 80) \div total_sources

\* the except branch of _search_source_with_progress
unit_failure(source, error) ==
    Pair(EmptyFrame,
         [success |-> FALSE, error |-> error, count |-> 0,
          scraper_configured |-> validate_config(source)])

\* _search_source_with_progress from the return of scraper.search on
unit_result(source, out) ==
    IF out.raises THEN unit_failure(source, out.error)
    ELSE LET normalized_df == normalize_dataframe(out.df, source)
         IN  IF IsRaise(normalized_df)
             THEN unit_failure(source, normalized_df.l[1])
             ELSE Pair(normalized_df,
                       [success |-> TRUE, count |-> FrameLen(normalized_df),
                        scraper_configured |-> validate_config(source)])

\* results in the order in which the tasks ended (asyncio.as_completed)
gather_results_as_completed(ts) ==
    [k \in 1..Len(ts) |-> ts[settle_order[k]].result]

\* asyncio.gather(*tasks, return_exceptions=True): the results in the
\* order of the tasks
gather_results(ts) == [i \in 1..Len(ts) |-> ts[i].result]

\* a gather that resumes its caller at the first failed task
gather_ready_first_failure(ts) ==
    \/ \A i \in 1..Len(ts) : ts[i].status = "done"
    \/ \E i \in 1..Len(ts) :
          ts[i].status = "done" /\ ~ts[i].result.metadata.success

\* a gather that never resumes its caller once a task has failed
gather_ready_all_success(ts) ==
    \A i \in 1..Len(ts) :
        ts[i].status = "done" /\ ts[i].result.metadata.success

\* gather resumes its caller once every task is done
gather_ready(ts) == \A i \in 1..Len(ts) : ts[i].status = "done"

\* d[k] = v on a dict
DictSet(d, k, v) == [x \in DOMAIN d \cup {k} |-> IF x = k THEN v ELSE d[x]]

\* the loop over enumerate(results)
RECURSIVE process_results(_, _, _, _)
process_results(results, valid, i, acc) ==
    IF i > Len(results) THEN acc
    ELSE LET source == valid[i]
             result == results[i]
         IN  process_results(results, valid, i + 1,
                 IF result.is_exception
                 THEN [dataframes |-> acc.dataframes,
                       metadata |-> DictSet(acc.metadata, source,
                           [success |-> FALSE, error |-> result.error,
                            count |-> 0])]
                 ELSE [dataframes |-> Append(acc.dataframes, result.df),
                       metadata |-> DictSet(acc.metadata, source,
                                            result.metadata)])

\* sequences over S of length at most n
SeqsUpTo(S, n) == UNION {[1..k -> S] : k \in 0..n}

NoCalls == [k \in ScraperKeys |-> 0]

\* the callback raises at one of its invocations, or at none
CallbackFailures ==
    IF ~has_callback THEN {0}
    ELSE IF valid_sources = <<>> THEN 0..1
    ELSE 0..(Len(valid_sources) + 3)

InitAll ==
    /\ call = "all"
    /\ selected_sources \in SeqsUpTo(SourceIds, MaxSelected)
    /\ has_callback \in BOOLEAN
    /\ outcome \in [Range(valid_sources) -> Outcomes]
    /\ single_source = ""
    /\ fn_args = <<>>
    /\ fn_result = <<>>
    /\ fn_objects = <<>>
    /\ fn_result_id = 0

InitSingle ==
    /\ call = "single"
    /\ single_source \in SourceIds
    /\ selected_sources = <<>>
    /\ has_callback = FALSE
    /\ outcome \in [{single_source} \cap ScraperKeys -> Outcomes]
    /\ fn_args = <<>>
    /\ fn_result = <<>>
    /\ fn_objects = <<>>
    /\ fn_result_id = 0

\* ScrapingOrchestrator.__init__: self.scrapers
InitialScrapers ==
    [k \in ScraperKeys |->
        CASE k = "reddit" -> "RedditScraper"
          [] k = "forums" -> "ForumScraper"
          [] k = "news" -> "NewsScraper"
          [] k = "classifieds" -> "ClassifiedsScraper"
          [] k = "suppliers" -> "SuppliersScraper"]

InitState ==
    /\ api_config \in ApiConfigs
    /\ scrapers = InitialScrapers
    /\ results_cache = <<>>
    /\ calls_begun = 1
    /\ pc = "ready"
    /\ tasks = <<>>
    /\ settle_order = <<>>
    /\ search_calls = NoCalls
    /\ in_flight = NoCalls
    /\ progress = <<>>
    /\ source_dataframes = <<>>
    /\ source_metadata = <<>>
    /\ merged_df = EmptyFrame
    /\ ret_table = EmptyFrame
    /\ ret_meta = <<>>
    \* no RateLimiter has been constructed
    /\ now = 0
    /\ delay = 0
    /\ last_request_time = 0
    /\ waiters = <<>>
    /\ returns = <<>>

\* a call of search_all_sources or of search_single_source whose progress
\* callback, when it has one, does not raise
Init ==
    /\ InitAll \/ InitSingle
    /\ cb_fail_at = 0
    /\ InitState

\* a call of search_all_sources whose progress callback may raise at one
\* of its invocations
InitRaisingCallback ==
    /\ InitAll
    /\ cb_fail_at \in CallbackFailures
    /\ InitState

Inputs ==
    <<call, selected_sources, has_callback, cb_fail_at, outcome, api_config,
      single_source>>

Locals == <<source_dataframes, source_metadata, merged_df>>

\* the call of a function of the data layer, which the calls of the
\* orchestrator's searches leave alone
DataCall == <<fn_args, fn_result, fn_objects, fn_result_id>>

\* the orchestrator the calls are made on: its attributes, which no method
\* assigns after __init__, and the number of calls begun on it
Attributes == <<scrapers, results_cache, calls_begun>>

\* the clock and the rate limiter of the HTTP client, which the
\* orchestrator's methods and the data layer's functions never touch
Limiter == <<now, delay, last_request_time, waiters, returns>>

\* lines 55-62: the call begins and the callback raises at 0%
StartRaises ==
    /\ pc = "ready" /\ call = "all"
    /\ CallbackRaises
    /\ progress' = Append(progress, 0)
    /\ pc' = "raised"
    /\ UNCHANGED <<Inputs, DataCall, Attributes, Limiter, Locals, tasks, settle_order,
                   search_calls, in_flight, ret_table, ret_meta>>

\* a call that raises when no selected source is valid
StartNoValidRaises ==
    /\ pc = "ready" /\ call = "all"
    /\ ~CallbackRaises
    /\ valid_sources = <<>>
    /\ progress' = IF has_callback THEN Append(progress, 0) ELSE progress
    /\ pc' = "raised"
    /\ UNCHANGED <<Inputs, DataCall, Attributes, Limiter, Locals, tasks, settle_order,
                   search_calls, in_flight, ret_table, ret_meta>>

\* lines 55-68: no selected source is a key of self.scrapers
StartNoValid ==
    /\ pc = "ready" /\ call = "all"
    /\ ~CallbackRaises
    /\ valid_sources = <<>>
    /\ progress' = IF has_callback THEN Append(progress, 0) ELSE progress
    /\ ret_table' = EmptyFrame
    /\ ret_meta' = [error |-> "No valid sources selected"]
    /\ pc' = "returned"
    /\ UNCHANGED <<Inputs, DataCall, Attributes, Limiter, Locals, tasks, settle_order,
                   search_calls, in_flight>>

\* the units of work asyncio.gather schedules, one per valid source
launch(valid) ==
    [i \in 1..Len(valid) |->
        [source |-> valid[i], status |-> "scheduled", result |-> NoResult]]

\* lines 55-88: one unit per valid source is created and handed to
\* asyncio.gather, and the call suspends on the await
StartGather ==
    /\ pc = "ready" /\ call = "all"
    /\ ~CallbackRaises
    /\ valid_sources # <<>>
    /\ progress' = IF has_callback THEN Append(progress, 0) ELSE progress
    /\ tasks' = launch(valid_sources)
    /\ pc' = "gather"
    /\ UNCHANGED <<Inputs, DataCall, Attributes, Limiter, Locals, settle_order,
                   search_calls, in_flight, ret_table, ret_meta>>

\* the event loop runs the first step of the scheduled tasks in the order
\* gather scheduled them
NextToStart(i) ==
    /\ i \in 1..Len(tasks)
    /\ tasks[i].status = "scheduled"
    /\ \A j \in 1..(i - 1) : tasks[j].status # "scheduled"

\* lines 149-162: unit i reports its progress and calls scraper.search,
\* where it suspends
UnitStart(i) ==
    /\ pc = "gather"
    /\ NextToStart(i)
    /\ ~CallbackRaises
    /\ progress' =
          IF has_callback
          THEN Append(progress, source_progress(i - 1, Len(tasks)))
          ELSE progress
    /\ tasks' = [tasks EXCEPT ![i].status = "awaiting"]
    /\ search_calls' =
          [search_calls EXCEPT ![tasks[i].source] = @ + 1]
    /\ in_flight' = [in_flight EXCEPT ![tasks[i].source] = @ + 1]
    /\ UNCHANGED <<Inputs, DataCall, Attributes, Limiter, Locals, pc,
                   settle_order, ret_table, ret_meta>>

\* lines 149-154, 180-190: the callback raises at unit i's checkpoint,
\* inside the try: the unit ends as a failure without calling the adapter
UnitCallbackRaises(i) ==
    /\ pc = "gather"
    /\ NextToStart(i)
    /\ CallbackRaises
    /\ progress' = Append(progress, source_progress(i - 1, Len(tasks)))
    /\ tasks' = [tasks EXCEPT
                    ![i].status = "done",
                    ![i].result = unit_failure(tasks[i].source, CallbackError)]
    /\ settle_order' = Append(settle_order, i)
    /\ UNCHANGED <<Inputs, DataCall, Attributes, Limiter, Locals, pc, search_calls,
                   in_flight, ret_table, ret_meta>>

\* lines 157-190: scraper.search of unit i returns or raises; the unit
\* normalizes, builds its metadata and ends
UnitSettle(i) ==
    /\ pc = "gather"
    /\ i \in 1..Len(tasks)
    /\ tasks[i].status = "awaiting"
    /\ tasks' = [tasks EXCEPT
                    ![i].status = "done",
                    ![i].result =
                        unit_result(tasks[i].source, outcome[tasks[i].source])]
    /\ in_flight' = [in_flight EXCEPT ![tasks[i].source] = @ - 1]
    /\ settle_order' = Append(settle_order, i)
    /\ UNCHANGED <<Inputs, DataCall, Attributes, Limiter, Locals, pc, search_calls,
                   progress, ret_table, ret_meta>>

\* lines 88-110: gather resumes the call with the results of all the units
GatherReturns ==
    /\ pc = "gather"
    /\ gather_ready(tasks)
    /\ LET acc == process_results(gather_results(tasks), valid_sources, 1,
                                  [dataframes |-> <<>>, metadata |-> <<>>])
       IN  /\ source_dataframes' = acc.dataframes
           /\ source_metadata' = acc.metadata
    /\ pc' = "merge"
    /\ UNCHANGED <<Inputs, DataCall, Attributes, Limiter, tasks, settle_order,
                   search_calls, in_flight, progress, merged_df, ret_table,
                   ret_meta>>

\* lines 112-116
Merge ==
    /\ pc = "merge"
    /\ progress' = IF has_callback THEN Append(progress, 90) ELSE progress
    /\ IF CallbackRaises
       THEN /\ pc' = "raised"
            /\ UNCHANGED merged_df
       ELSE /\ merged_df' = merge_dataframes(source_dataframes)
            /\ pc' = "complete"
    /\ UNCHANGED <<Inputs, DataCall, Attributes, Limiter, tasks, settle_order,
                   search_calls, in_flight, source_dataframes,
                   source_metadata, ret_table, ret_meta>>

\* a completion that returns without reporting 100%
CompleteSilently ==
    /\ pc = "complete"
    /\ ret_table' = merged_df
    /\ ret_meta' = [sources_searched |-> valid_sources,
                    total_results |-> FrameLen(merged_df),
                    source_results |-> source_metadata]
    /\ pc' = "returned"
    /\ UNCHANGED <<Inputs, DataCall, Attributes, Limiter, Locals, tasks, settle_order,
                   search_calls, in_flight, progress>>

\* a completion that keeps the table in self.results_cache
CompleteCaching ==
    /\ pc = "complete"
    /\ progress' = IF has_callback THEN Append(progress, 100) ELSE progress
    /\ ret_table' = merged_df
    /\ ret_meta' = [sources_searched |-> valid_sources,
                    total_results |-> FrameLen(merged_df),
                    source_results |-> source_metadata]
    /\ results_cache' = DictSet(results_cache, "last", merged_df)
    /\ pc' = "returned"
    /\ UNCHANGED <<Inputs, DataCall, Limiter, scrapers, calls_begun, Locals,
                   tasks, settle_order, search_calls, in_flight>>

\* lines 118-134 (the times of the metadata are not modelled)
Complete ==
    /\ pc = "complete"
    /\ progress' = IF has_callback THEN Append(progress, 100) ELSE progress
    /\ IF CallbackRaises
       THEN /\ pc' = "raised"
            /\ UNCHANGED <<ret_table, ret_meta>>
       ELSE /\ ret_table' = merged_df
            /\ ret_meta' = [sources_searched |-> valid_sources,
                            total_results |-> FrameLen(merged_df),
                            source_results |-> source_metadata]
            /\ pc' = "returned"
    /\ UNCHANGED <<Inputs, DataCall, Attributes, Limiter, Locals, tasks, settle_order,
                   search_calls, in_flight>>

(***************************************************************************)
(* ScrapingOrchestrator.search_single_source                               *)
(***************************************************************************)
\* lines 226-229
SingleUnknown ==
    /\ pc = "ready" /\ call = "single"
    /\ single_source \notin ScraperKeys
    /\ ret_table' = EmptyFrame
    /\ ret_meta' = [error |-> <<"Unknown source: ", single_source>>]
    /\ pc' = "returned"
    /\ UNCHANGED <<Inputs, DataCall, Attributes, Limiter, Locals, tasks, settle_order,
                   search_calls, in_flight, progress>>

\* lines 231-242: scraper.search is called and the call suspends
SingleStart ==
    /\ pc = "ready" /\ call = "single"
    /\ single_source \in ScraperKeys
    /\ search_calls' = [search_calls EXCEPT ![single_source] = @ + 1]
    /\ in_flight' = [in_flight EXCEPT ![single_source] = @ + 1]
    /\ pc' = "single_await"
    /\ UNCHANGED <<Inputs, DataCall, Attributes, Limiter, Locals, tasks, settle_order,
                   progress, ret_table, ret_meta>>

\* a search_single_source that lets the adapter's exception through
single_result_reraises(source, out) ==
    IF out.raises
    THEN [is_exception |-> TRUE, error |-> out.error, df |-> EmptyFrame,
          metadata |-> <<>>]
    ELSE LET normalized_df == normalize_dataframe(out.df, source)
         IN  Pair(normalized_df,
                  [success |-> TRUE, source |-> source,
                   count |-> FrameLen(normalized_df),
                   scraper_configured |-> validate_config(source)])

\* the except branch of search_single_source
single_failure(source, error) ==
    Pair(EmptyFrame,
         [success |-> FALSE, error |-> error, source |-> source,
          count |-> 0, scraper_configured |-> validate_config(source)])

\* search_single_source from the return of scraper.search on
single_result(source, out) ==
    IF out.raises THEN single_failure(source, out.error)
    ELSE LET normalized_df == normalize_dataframe(out.df, source)
         IN  IF IsRaise(normalized_df)
             THEN single_failure(source, normalized_df.l[1])
             ELSE Pair(normalized_df,
                       [success |-> TRUE, source |-> source,
                        count |-> FrameLen(normalized_df),
                        scraper_configured |-> validate_config(source)])

\* lines 244-270
SingleSettle ==
    /\ pc = "single_await"
    /\ LET r == single_result(single_source, outcome[single_source])
       IN  IF r.is_exception
           THEN /\ pc' = "raised"
                /\ UNCHANGED <<ret_table, ret_meta>>
           ELSE /\ ret_table' = r.df
                /\ ret_meta' = r.metadata
                /\ pc' = "returned"
    /\ in_flight' = [in_flight EXCEPT ![single_source] = @ - 1]
    /\ UNCHANGED <<Inputs, DataCall, Attributes, Limiter, Locals, tasks, settle_order,
                   search_calls, progress>>

Next ==
    \/ StartNoValid
    \/ StartGather
    \/ \E i \in 1..MaxSelected : UnitStart(i)
    \/ \E i \in 1..MaxSelected : UnitSettle(i)
    \/ GatherReturns
    \/ Merge
    \/ Complete
    \/ SingleUnknown
    \/ SingleStart
    \/ SingleSettle

Spec == Init /\ [][Next]_vars

NextRaisingCallback ==
    \/ StartRaises
    \/ StartNoValid
    \/ StartGather
    \/ \E i \in 1..MaxSelected : UnitStart(i)
    \/ \E i \in 1..MaxSelected : UnitCallbackRaises(i)
    \/ \E i \in 1..MaxSelected : UnitSettle(i)
    \/ GatherReturns
    \/ Merge
    \/ Complete

SpecRaisingCallback == InitRaisingCallback /\ [][NextRaisingCallback]_vars

(***************************************************************************)
(* Calls of the functions of the data layer on their own: normalize_date,  *)
(* normalize_record, normalize_dataframe, a unit of work on a table its    *)
(* adapter returned, merge_dataframes and filter_results.                  *)
(***************************************************************************)
\* bound of the model: tables handed to one merge_dataframes call
MaxFrames == 2

\* values handed to normalize_date
DateInputs ==
    {PyNone, PyNaN, PyNum(0), PyNum(5), PyBool(TRUE),
     PyBigNum("253402300800"), PyBigNum("1e+20"), PyBigNum("inf"),
     PyBigNum("-1e+20"), PyBigNum("-inf"), PyBigNum("1.7e+18"),
     PyDate(4, Naive), PyDate(4, UTC), PyDate(3, Plus2),
     PyStr(<<"1970-01-01T00:00:04Z">>),
     PyStr(<<"1970-01-01T02:00:03+02:00">>),
     PyStr(<<"1970-01-01 00:00:02">>),
     PyStr(<<"n", "o">>), PyList(<<>>)}

\* the canonical fields that have a priority list, and their lists
MappedFields ==
    <<"title", "body", "author", "date", "url", "score", "comments_count">>
FieldLists ==
    <<title_fields, body_fields, author_fields, date_fields, url_fields,
      score_fields, comments_fields>>

\* three candidates of the list of field g: the first, the second, the last
Candidates(g) ==
    <<FieldLists[g][1], FieldLists[g][2], FieldLists[g][Len(FieldLists[g])]>>

\* a value for the k-th of these candidates
CandidateValue(g, k) ==
    CASE MappedFields[g] \in {"title", "body", "author", "url"} ->
            PyStr(<<MappedFields[g], <<"1", "2", "3">>[k]>>)
      [] MappedFields[g] = "date" -> PyNum(3 + k)
      [] OTHER -> PyNum(k)

\* raw mappings that hold candidates of one field only, each candidate
\* absent, None or a value
RawRecordsOf(g) ==
    {[f \in {Candidates(g)[k] : k \in {j \in 1..3 : c[j] # "absent"}} |->
         LET k == CHOOSE j \in 1..3 : Candidates(g)[j] = f
         IN  IF c[k] = "none" THEN PyNone ELSE CandidateValue(g, k)] :
     c \in [1..3 -> {"absent", "none", "value"}]}

\* an already-canonical record
CanonicalRecord(title, date, comments_count) ==
    [source |-> PyStr(<<"reddit">>), title |-> title,
     body |-> PyStr(<<"b">>), author |-> PyStr(<<"al">>), date |-> date,
     url |-> PyStr(<<"u">>), score |-> PyNum(3),
     comments_count |-> comments_count,
     tags |-> PyList(<<<<"x">>, <<"y">>>>)]

CanonicalRecords ==
    {CanonicalRecord(title, date, comments_count) :
        title \in {PyStr(<<"R", "o", "o", "f">>),
                   PyStr(<<"&", "l", "t", ";">>)},
        date \in {PyDate(4, UTC), PyNone},
        comments_count \in {PyNum(0), PyNum(5)}}

\* raw mappings with a source key, with tags, with a missing-cell marker
\* before a later candidate, with dates normalize_date cannot convert
OtherRawRecords ==
    {[source |-> PyStr(<<"raw">>), title |-> PyStr(<<"R", "o", "o", "f">>)],
     [tags |-> PyStr(<<"x", ",", " ", "y", ",", " ">>)],
     [tags |-> PyList(<<<<"x">>>>)],
     [tags |-> PyNone],
     [tags |-> PyNum(3)],
     [title |-> PyNaN, subject |-> PyStr(<<"s">>)],
     [title |-> PyBool(TRUE), body |-> PyBigNum("1e+20")],
     [title |-> PyStr(<<" ", "<", "b", ">", "a", " ", " ", "b">>),
      body |-> PyStr(<<"a", "&", "l", "t", ";", "b">>)],
     [title |-> PyStr(<<"t">>), created_utc |-> PyBigNum("1e+20")],
     [title |-> PyStr(<<"t">>), created_utc |-> PyBigNum("253402300800")],
     [title |-> PyStr(<<"t">>), created_at |-> PyDate(3, Plus2)]}

RawRecords ==
    UNION {RawRecordsOf(g) : g \in 1..Len(MappedFields)}
        \cup CanonicalRecords \cup OtherRawRecords

\* a raw table whose rows fill different candidate columns: the cells a
\* row does not fill hold the missing-cell marker
RawTableMixed ==
    [columns |-> <<"title", "subject", "body", "selftext">>,
     index |-> RangeIndex(2),
     rows |-> <<
        [title |-> PyStr(<<"a">>), subject |-> PyNaN,
         body |-> PyStr(<<"p">>), selftext |-> PyNaN],
        [title |-> PyNaN, subject |-> PyStr(<<"s">>),
         body |-> PyNaN, selftext |-> PyStr(<<"q">>)] >>]

\* tables without a date column
PlainTable3 ==
    [columns |-> <<"url", "title">>,
     index |-> RangeIndex(3),
     rows |-> <<
        [url |-> PyStr(<<"u">>), title |-> PyStr(<<"a">>)],
        [url |-> PyStr(<<"v">>), title |-> PyStr(<<"b">>)],
        [url |-> PyStr(<<"u">>), title |-> PyStr(<<"a">>)] >>]

PlainTable2 ==
    [columns |-> <<"url", "score">>,
     index |-> RangeIndex(2),
     rows |-> <<
        [url |-> PyStr(<<"u">>), score |-> PyNum(1)],
        [url |-> PyStr(<<"w">>), score |-> PyNum(2)] >>]

\* tables handed to merge_dataframes: normalized tables of two sources
\* (the same URL from both), empty tables with and without columns, and
\* tables without dates
MergeFrames ==
    {EmptyFrame,
     normalize_dataframe(EmptyFrame, "news"),
     normalize_dataframe(RawTableA, "news"),
     normalize_dataframe(RawTableB, "news"),
     normalize_dataframe(RawTableB, "reddit"),
     PlainTable3, PlainTable2}

\* a row of a Result Table
ResultRow(source, title, body, date, score) ==
    [source |-> PyStr(<<source>>), title |-> title, body |-> body,
     author |-> PyNone, date |-> date, url |-> PyNone, score |-> score,
     comments_count |-> PyNum(0), tags |-> PyList(<<>>)]

\* a Result Table handed to filter_results
ResultTable ==
    [columns |-> standard_fields,
     index |-> RangeIndex(4),
     rows |-> <<
        ResultRow("reddit", PyStr(<<"R", "o", "o", "f">>), PyNone,
                  PyDate(5, UTC), PyNum(1)),
        ResultRow("news", PyStr(<<"a", "x", "b">>),
                  PyStr(<<"R", "O", "O", "F">>), PyNone, PyNum(5)),
        ResultRow("reddit", PyStr(<<"t", "i", "n">>),
                  PyStr(<<"a", ".", "b">>), PyDate(6, UTC), PyNum(10)),
        ResultRow("news", PyNone, PyStr(<<"x">>), PyDate(4, UTC),
                  PyNaN) >>]

FilterArgs ==
    [df : {EmptyFrame, ResultTable},
     source_filter : {PyNone, PyList(<<<<"reddit">>>>), PyList(<<>>),
                      PyList(<<<<"github">>>>)},
     date_range : {PyNone, PyTuple(<<PyDate(5, UTC), PyDate(6, UTC)>>)},
     min_score : {PyNone, PyNum(5)},
     keyword_filter : {PyNone, PyStr(<<>>), PyStr(<<"R", "O", "O", "F">>),
                       PyStr(<<"a", ".", "b">>), PyStr(<<".">>),
                       PyStr(<<"(">>)}]

\* queries handed to get_search_suggestions: the example of the
\* specification, one token of the vocabulary, other letter cases and
\* spacing, no token of the vocabulary, no token, short tokens, six and ten
\* long tokens
Queries ==
    {<<"f", "l", "a", "t", " ", "r", "o", "o", "f", " ", "r", "e", "p", "a",
       "i", "r">>,
     <<"r", "o", "o", "f">>,
     <<"L", "a", "t", "v", "i", "a">>,
     <<"R", "o", "o", "f", " ", " ", "R", "e", "p", "a", "i", "r", " ">>,
     <<"p", "y", "t", "h", "o", "n", " ", "p", "r", "o", "g", "r", "a", "m",
       "m", "i", "n", "g">>,
     <<>>,
     <<"a", " ", "b">>,
     <<"i", "n", "s", "t", "a", "l", "l">>,
     <<"f", "l", "a", "t", " ", "r", "o", "o", "f", " ", "l", "e", "a", "k",
       " ", "r", "e", "p", "a", "i", "r", " ", "c", "o", "s", "t", " ", "h",
       "e", "l", "p">>,
     <<"r", "o", "o", "f", " ", "r", "o", "o", "f", " ", "r", "o", "o", "f",
       " ", "r", "o", "o", "f", " ", "r", "o", "o", "f", " ", "r", "o", "o",
       "f", " ", "r", "o", "o", "f", " ", "r", "o", "o", "f", " ", "r", "o",
       "o", "f", " ", "r", "o", "o", "f">>}

\* values handed to clean_text: None, the empty str, texts with runs of
\* whitespace, with tags between and after words, with character
\* references, and values that are no str: numbers, bools, datetimes,
\* lists
TextInputs ==
    {PyNone, PyNum(0), PyNum(5), PyNum(-3), PyBigNum("1e+20"),
     PyBool(TRUE), PyBool(FALSE), PyNaN,
     PyDate(4, UTC), PyDate(4, Naive), PyDate(3, Plus2), PyDate(-1, UTC),
     PyDate(951782400, UTC), PyDate(1709251199, Plus2),
     PyList(<<>>), PyList(<<<<"a">>, <<"i", "t", "'", "s">>>>),
     PyStr(<<>>),
     PyStr(<<"p", "l", "a", "i", "n">>),
     PyStr(<<" ", " ", "a", " ", "\n", "\t", " ", "b", " ">>),
     PyStr(<<"<", "b", ">", "b", "o", "l", "d", "<", "/", "b", ">", " ", "t", "e", "x", "t">>),
     PyStr(<<"a", " ", "<", "b", ">", " ", "c">>),
     PyStr(<<"a", " ", "<", "b", "r", ">">>),
     PyStr(<<"&", "l", "t", ";", "b", "&", "g", "t", ";">>),
     PyStr(<<"&", "a", "m", "p", ";", "l", "t", ";">>),
     PyStr(<<"a", " ", "&", "a", "m", "p", ";", " ", "b">>)}

\* one call of one function of the data layer
InitData ==
    /\ \/ call = "normalize_date" /\ fn_args \in [date_input : DateInputs]
       \/ /\ call = "normalize_record"
          /\ fn_args \in [record : RawRecords, source : {"reddit", "test"}]
       \/ /\ call = "normalize_dataframe"
          /\ fn_args \in [df : RawTables \cup {RawTableBad, RawTableMixed},
                          source : {"reddit"}]
       \/ /\ call = "search_source"
          /\ fn_args \in [df : RawTables \cup {RawTableBad, RawTableMixed},
                          source : {"reddit", "news"}]
       \/ /\ call = "merge_dataframes"
          /\ fn_args \in [dataframes : SeqsUpTo(MergeFrames, MaxFrames)]
       \/ call = "filter_results" /\ fn_args \in FilterArgs
       \/ /\ call = "get_search_suggestions"
          /\ fn_args \in [query : Queries]
       \/ call = "get_scraper_status" /\ fn_args = <<>>
       \/ call = "clean_text" /\ fn_args \in [text : TextInputs]
    /\ fn_result = <<>>
    /\ fn_objects = IF call = "filter_results" THEN <<fn_args.df>> ELSE <<>>
    /\ fn_result_id = 0
    /\ selected_sources = <<>>
    /\ has_callback = FALSE
    /\ cb_fail_at = 0
    /\ outcome = <<>>
    /\ single_source = ""
    /\ InitState

\* the call ends: it returns what the function returns, or raises what it
\* raises
Ends(value) ==
    /\ pc = "ready"
    /\ fn_result' = value
    /\ pc' = IF IsRaise(value) THEN "raised" ELSE "returned"
    /\ UNCHANGED <<call, selected_sources, has_callback, cb_fail_at, outcome,
                   api_config, single_source, fn_args, Attributes, Limiter,
                   Locals,
                   tasks, settle_order, search_calls, in_flight, progress,
                   ret_table, ret_meta>>

\* the call of a function that is handed no table object
Returns(value) ==
    /\ Ends(value)
    /\ UNCHANGED <<fn_objects, fn_result_id>>

CleanText ==
    /\ call = "clean_text"
    /\ Returns(PyStr(clean_text(fn_args.text)))

NormalizeDate ==
    /\ call = "normalize_date"
    /\ Returns(normalize_date(fn_args.date_input))

NormalizeRecord ==
    /\ call = "normalize_record"
    /\ Returns(normalize_record(fn_args.record, fn_args.source))

NormalizeDataframe ==
    /\ call = "normalize_dataframe"
    /\ Returns(normalize_dataframe(fn_args.df, fn_args.source))

\* lines 164-190: the unit of work of a source whose adapter returned df
SearchSource ==
    /\ call = "search_source"
    /\ Returns(unit_result(fn_args.source, AdapterReturns(fn_args.df)))

MergeDataframes ==
    /\ call = "merge_dataframes"
    /\ Returns(merge_dataframes(fn_args.dataframes))

\* the table handed to filter_results is the object of identity 1
FilterResults ==
    /\ call = "filter_results"
    /\ LET r == filter_results_objects(fn_objects, 1, fn_args.source_filter,
                                       fn_args.date_range, fn_args.min_score,
                                       fn_args.keyword_filter)
       IN  IF IsRaise(r)
           THEN Ends(r) /\ UNCHANGED <<fn_objects, fn_result_id>>
           ELSE /\ Ends(r.objects[r.id])
                /\ fn_objects' = r.objects
                /\ fn_result_id' = r.id

GetSearchSuggestions ==
    /\ call = "get_search_suggestions"
    /\ Returns(PyList(get_search_suggestions(fn_args.query)))

GetScraperStatus ==
    /\ call = "get_scraper_status"
    /\ Returns(get_scraper_status)

NextData ==
    \/ NormalizeDate
    \/ NormalizeRecord
    \/ NormalizeDataframe
    \/ SearchSource
    \/ MergeDataframes
    \/ FilterResults
    \/ GetSearchSuggestions
    \/ GetScraperStatus
    \/ CleanText

SpecData == InitData /\ [][NextData]_vars

(***************************************************************************)
(* Sequences of calls on one orchestrator: when a call has ended the       *)
(* caller begins another one, of any of the five public methods.           *)
(***************************************************************************)
\* bounds of the model: calls in a sequence, and sources selected by a
\* search_all_sources call of a sequence
MaxCalls == 3
MaxSequenceSelected == 2

\* the calls of a sequence: the method and its inputs
SequenceCalls ==
    UNION {{[call |-> "all", selected_sources |-> sel, has_callback |-> cb,
             outcome |-> o, single_source |-> "", fn_args |-> <<>>] :
               cb \in BOOLEAN,
               o \in [Range(valid_sources_of(sel)) -> Outcomes]} :
           sel \in SeqsUpTo(SourceIds, MaxSequenceSelected)}
    \cup UNION {{[call |-> "single", selected_sources |-> <<>>,
                  has_callback |-> FALSE, outcome |-> o,
                  single_source |-> s, fn_args |-> <<>>] :
                    o \in [{s} \cap ScraperKeys -> Outcomes]} :
                s \in SourceIds}
    \cup {[call |-> "filter_results", selected_sources |-> <<>>,
           has_callback |-> FALSE, outcome |-> <<>>, single_source |-> "",
           fn_args |-> a] :
             a \in {x \in FilterArgs :
                       /\ x.date_range = PyNone
                       /\ x.keyword_filter
                             \in {PyNone, PyStr(<<"R", "O", "O", "F">>)}}}
    \cup {[call |-> "get_search_suggestions", selected_sources |-> <<>>,
           has_callback |-> FALSE, outcome |-> <<>>, single_source |-> "",
           fn_args |-> [query |-> q]] : q \in Queries}
    \cup {[call |-> "get_scraper_status", selected_sources |-> <<>>,
           has_callback |-> FALSE, outcome |-> <<>>, single_source |-> "",
           fn_args |-> <<>>]}

\* the table object handed to a call
\* a new orchestrator and the first call on it
InitCalls ==
    /\ \E c \in SequenceCalls :
          /\ call = c.call
          /\ selected_sources = c.selected_sources
          /\ has_callback = c.has_callback
          /\ outcome = c.outcome
          /\ single_source = c.single_source
          /\ fn_args = c.fn_args
          /\ fn_objects = IF c.call = "filter_results"
                          THEN <<c.fn_args.df>> ELSE <<>>
    /\ cb_fail_at = 0
    /\ fn_result = <<>>
    /\ fn_result_id = 0
    /\ InitState

\* the call has ended and the caller begins another one on the same
\* orchestrator
NextCall ==
    /\ pc \in {"returned", "raised"}
    /\ calls_begun < MaxCalls
    /\ \E c \in SequenceCalls :
          /\ call' = c.call
          /\ selected_sources' = c.selected_sources
          /\ has_callback' = c.has_callback
          /\ outcome' = c.outcome
          /\ single_source' = c.single_source
          /\ fn_args' = c.fn_args
          /\ fn_objects' = IF c.call = "filter_results"
                           THEN <<c.fn_args.df>> ELSE <<>>
    /\ calls_begun' = calls_begun + 1
    /\ pc' = "ready"
    /\ fn_result' = <<>>
    /\ fn_result_id' = 0
    /\ tasks' = <<>>
    /\ settle_order' = <<>>
    /\ search_calls' = NoCalls
    /\ in_flight' = NoCalls
    /\ progress' = <<>>
    /\ source_dataframes' = <<>>
    /\ source_metadata' = <<>>
    /\ merged_df' = EmptyFrame
    /\ ret_table' = EmptyFrame
    /\ ret_meta' = <<>>
    /\ UNCHANGED <<cb_fail_at, api_config, scrapers, results_cache, Limiter>>

NextCalls ==
    \/ Next
    \/ FilterResults
    \/ GetSearchSuggestions
    \/ GetScraperStatus
    \/ NextCall

SpecCalls == InitCalls /\ [][NextCalls]_vars

(***************************************************************************)
(* What the inputs of a call determine, used to state the properties.      *)
(***************************************************************************)
IsCallAll == call = "all"
IsCallSingle == call = "single"

\* the number of times x occurs in the sequence q
RECURSIVE Occurrences(_, _)
Occurrences(q, x) ==
    IF q = <<>> THEN 0
    ELSE (IF Head(q) = x THEN 1 ELSE 0) + Occurrences(Tail(q), x)

\* the same rows, each as many times, in any order
SameRows(a, b) ==
    /\ Len(a) = Len(b)
    /\ \A x \in Range(a) \cup Range(b) : Occurrences(a, x) = Occurrences(b, x)

\* the adapter of the unit at position i of the valid sources
AdapterOf(i) == valid_sources[i]
Raised(s) == outcome[s].raises
Returned(s) == ~outcome[s].raises

\* the normalization of each record of each table an adapter can return,
\* per adapter
NormalizedRecords ==
    [s \in SourceIds \cap ScraperKeys, df \in RawTables \cup {RawTableBad} |->
        [k \in 1..Len(df.rows) |-> normalize_record(df.rows[k], s)]]

\* the unit of adapter s does not fail: the adapter returned a table and
\* the normalization of none of its records raised
Succeeded(s) ==
    /\ Returned(s)
    /\ \A k \in 1..Len(outcome[s].df.rows) :
          ~IsRaise(NormalizedRecords[s, outcome[s].df][k])

\* the normalized rows of the table the adapter of unit i returned, none
\* when the unit fails
NormalizedRowsOf(i) ==
    IF ~Succeeded(AdapterOf(i)) THEN <<>>
    ELSE NormalizedRecords[AdapterOf(i), outcome[AdapterOf(i)].df]

RECURSIVE RowsOfUnits(_)
RowsOfUnits(i) ==
    IF i > Len(valid_sources) THEN <<>>
    ELSE NormalizedRowsOf(i) \o RowsOfUnits(i + 1)

\* dates never increase down the rows, and rows without a date come last
RECURSIVE NewestFirst(_)
NewestFirst(rows) ==
    \/ Len(rows) < 2
    \/ /\ \/ IsNaT(rows[2])
          \/ ~IsNaT(rows[1]) /\ rows[1]["date"].n >= rows[2]["date"].n
       /\ NewestFirst(Tail(rows))

\* the position of the last unit of adapter s
LastUnitOf(s) ==
    CHOOSE i \in 1..Len(valid_sources) :
        /\ valid_sources[i] = s
        /\ \A j \in (i + 1)..Len(valid_sources) : valid_sources[j] # s

AllSettled == \A i \in 1..Len(tasks) : tasks[i].status = "done"

(***************************************************************************)
(* C1. A search_all_sources call without progress callback returns         *)
(* normally whatever each adapter does; an adapter that raised has a       *)
(* Source Outcome with success false, count 0 and its error message, an    *)
(* adapter that returned has success true and the count of its rows, and   *)
(* the table holds exactly the normalized rows of the adapters that        *)
(* returned.                                                               *)
(***************************************************************************)
C1_FailureIsolation ==
    (IsCallAll /\ ~has_callback) =>
        /\ pc # "raised"
        /\ (pc = "returned" /\ valid_sources # <<>>) =>
              /\ DOMAIN ret_meta.source_results = Range(valid_sources)
              /\ \A s \in Range(valid_sources) :
                    LET o == ret_meta.source_results[s]
                    IN  IF Raised(s)
                        THEN /\ o.success = FALSE
                             /\ o.count = 0
                             /\ o.error = outcome[s].error
                        ELSE /\ o.success = TRUE
                             /\ o.count = Len(outcome[s].df.rows)
              /\ SameRows(ret_table.rows, RowsOfUnits(1))

(***************************************************************************)
(* C2. Every valid selected source has its unit of work started before     *)
(* the call waits; the call neither merges nor returns before every unit   *)
(* has settled; a unit that does not fail itself runs to completion with   *)
(* its own result whatever the other units do, the failure of their        *)
(* adapter or of their normalization included.                             *)
(***************************************************************************)
C2_FanOutFanIn ==
    IsCallAll =>
        /\ pc = "gather" =>
              /\ Len(tasks) = Len(valid_sources)
              /\ \A i \in 1..Len(tasks) : tasks[i].source = valid_sources[i]
        /\ (pc \in {"merge", "complete", "returned"} /\ valid_sources # <<>>) =>
              /\ Len(tasks) = Len(valid_sources)
              /\ AllSettled
        /\ \A i \in 1..Len(tasks) :
              (tasks[i].status = "done" /\ Succeeded(tasks[i].source)) =>
                  /\ tasks[i].result.metadata.success = TRUE
                  /\ tasks[i].result.df.rows = NormalizedRowsOf(i)

C2_Witness ==
    /\ IsCallAll /\ pc = "returned"
    /\ Len(tasks) = 3
    /\ tasks[1].result.metadata.success = FALSE
    /\ tasks[2].result.metadata.success = TRUE
    /\ FrameLen(tasks[2].result.df) = 2
    /\ Returned(tasks[1].source) /\ ~Succeeded(tasks[1].source)
    /\ settle_order = <<1, 3, 2>>

(***************************************************************************)
(* C3. For fixed adapter outputs the returned table and source_results     *)
(* are the same for every order in which the adapter calls complete: the   *)
(* rows are in the order of the date sort of the tables taken in the       *)
(* order of the selection, and each Source Outcome is that of the adapter  *)
(* of its identifier.                                                      *)
(***************************************************************************)
C3_OrderIndependent ==
    (IsCallAll /\ pc = "returned" /\ valid_sources # <<>>) =>
        /\ ret_table.rows =
              sort_values_date_desc(
                  [columns |-> standard_fields, rows |-> RowsOfUnits(1),
                   index |-> RangeIndex(Len(RowsOfUnits(1)))]).rows
        /\ NewestFirst(ret_table.rows)
        /\ \A s \in Range(valid_sources) :
              LET o == ret_meta.source_results[s]
              IN  /\ o.success = Succeeded(s)
                  /\ o.count = Len(NormalizedRowsOf(LastUnitOf(s)))
                  /\ o.scraper_configured = validate_config(s)
        /\ \A k \in 1..Len(ret_table.rows) :
              Succeeded(ret_table.rows[k]["source"].s[1])

C3_Witness ==
    /\ IsCallAll /\ pc = "returned"
    /\ valid_sources = <<"news", "reddit">>
    /\ settle_order = <<2, 1>>
    /\ outcome["news"] = AdapterReturns(RawTableA)
    /\ outcome["reddit"] = AdapterReturns(RawTableB)
    /\ ret_table.rows[1]["source"].s = <<"reddit">>
    /\ FrameLen(ret_table) = 3

(***************************************************************************)
(* C4. A progress callback that raises at any of its checkpoints does not  *)
(* change the outcome of search_all_sources: the call returns the table    *)
(* and the per-source outcomes it returns without callback.                *)
(***************************************************************************)
C4_RaisingCallbackHarmless ==
    (IsCallAll /\ pc \in {"returned", "raised"}) =>
        /\ pc = "returned"
        /\ valid_sources # <<>> =>
              /\ SameRows(ret_table.rows, RowsOfUnits(1))
              /\ \A s \in Range(valid_sources) :
                    ret_meta.source_results[s].success = Succeeded(s)

(***************************************************************************)
(* C5. When no selected source is a key of the adapter mapping (an empty   *)
(* selection included) search_all_sources returns an empty table and the   *)
(* metadata {error: "No valid sources selected"}, without raising and      *)
(* without invoking an adapter.                                            *)
(***************************************************************************)
C5_NoValidSources ==
    (IsCallAll /\ valid_sources = <<>>) =>
        /\ pc \in {"ready", "returned"}
        /\ tasks = <<>>
        /\ search_calls = NoCalls
        /\ pc = "returned" =>
              /\ ret_table = EmptyFrame
              /\ ret_meta = [error |-> "No valid sources selected"]

C5_Witness ==
    /\ IsCallAll /\ pc = "returned"
    /\ selected_sources = <<"github", "github">>
    /\ ret_meta = [error |-> "No valid sources selected"]

(***************************************************************************)
(* C6. search_single_source never raises for an unknown source or a        *)
(* raising adapter: an unknown source gives an empty table and error       *)
(* metadata and no adapter is invoked; a raising adapter gives an empty    *)
(* table and metadata with success false, count 0 and the error message.   *)
(***************************************************************************)
C6_SingleSourceNeverRaises ==
    IsCallSingle =>
        /\ pc # "raised"
        /\ single_source \notin ScraperKeys => search_calls = NoCalls
        /\ pc = "returned" =>
              IF single_source \notin ScraperKeys
              THEN /\ ret_table = EmptyFrame
                   /\ DOMAIN ret_meta = {"error"}
              ELSE Raised(single_source) =>
                      /\ ret_table = EmptyFrame
                      /\ ret_meta.success = FALSE
                      /\ ret_meta.count = 0
                      /\ ret_meta.error = outcome[single_source].error

C6_Witness ==
    /\ IsCallSingle /\ pc = "returned"
    /\ single_source = "reddit"
    /\ Raised("reddit")
    /\ search_calls["reddit"] = 1
    /\ ret_meta.success = FALSE

(***************************************************************************)
(* C7. Within one search_all_sources call adapter.search is invoked        *)
(* exactly once for each selected source of the adapter mapping, whatever  *)
(* its validate_config returns, never for an adapter that was not          *)
(* selected, and, whatever the selection contains, an adapter never has    *)
(* two invocations in flight.                                              *)
(***************************************************************************)
C7_OneInvocationPerAdapter ==
    IsCallAll =>
        \A s \in ScraperKeys :
            /\ in_flight[s] <= 1
            /\ s \notin Range(selected_sources) => search_calls[s] = 0
            /\ (pc = "returned" /\ s \in Range(selected_sources)) =>
                  search_calls[s] = 1

(***************************************************************************)
(* C8. With n >= 1 valid sources and a callback that does not raise, the   *)
(* percentages reported are 0, then floor(80*i/n) for the sources          *)
(* i = 0..n-1 in index order, each reported by the time its adapter call   *)
(* begins, then 90 once every unit has settled, then 100; the sequence     *)
(* never decreases and a per-source value is at most 80.                   *)
(***************************************************************************)
ExpectedProgress(n) ==
    <<0>> \o [i \in 1..n |-> (80 * (i - 1)) \div n] \o <<90, 100>>

IsPrefix(a, b) == Len(a) <= Len(b) /\ a = SubSeq(b, 1, Len(a))

C8_ProgressCheckpoints ==
    (IsCallAll /\ has_callback /\ valid_sources # <<>> /\ pc # "ready") =>
        LET n == Len(valid_sources)
        IN  /\ IsPrefix(progress, ExpectedProgress(n))
            /\ \A i \in 1..Len(tasks) :
                  (Len(progress) >= i + 1) <=> (tasks[i].status # "scheduled")
            /\ Len(progress) >= n + 2 => AllSettled
            /\ pc = "returned" => progress = ExpectedProgress(n)
            /\ \A k \in 1..(Len(progress) - 1) : progress[k] <= progress[k + 1]
            /\ \A k \in 2..(n + 1) : k <= Len(progress) => progress[k] <= 80

C8_Witness ==
    /\ IsCallAll /\ has_callback /\ pc = "returned"
    /\ progress = <<0, 0, 26, 53, 90, 100>>

(***************************************************************************)
(* C9 as stated. Every search_all_sources call with a callback that does   *)
(* not raise has reported 100 as its last checkpoint when it returns,      *)
(* whatever the selection of sources.                                      *)
(***************************************************************************)
C9_CompleteAlwaysReported ==
    (IsCallAll /\ has_callback /\ pc = "returned") =>
        /\ progress # <<>>
        /\ progress[Len(progress)] = 100

(***************************************************************************)
(* C9 as amended. A search_all_sources call with a callback that does not  *)
(* raise and at least one valid selected source has reported 100 as its    *)
(* last checkpoint when it returns, whatever the adapters did; a call      *)
(* without valid selected source returns having reported 0 only.           *)
(***************************************************************************)
C9_CompleteReportedWhenValid ==
    (IsCallAll /\ has_callback /\ pc = "returned") =>
        IF valid_sources # <<>>
        THEN progress[Len(progress)] = 100
        ELSE progress = <<0>>

C9_Witness ==
    /\ IsCallAll /\ has_callback /\ pc = "returned"
    /\ valid_sources = <<"reddit", "news">>
    /\ Raised("reddit") /\ Raised("news")
    /\ progress[Len(progress)] = 100

(***************************************************************************)
(* C10. When every adapter call that was begun returns or raises, the      *)
(* search_all_sources call returns a table and metadata as a normal        *)
(* return value, also when every source failed, and nothing but the        *)
(* adapters makes it wait: a call that has not returned is never stuck     *)
(* (the call can take its next step, a unit can begin, or an adapter call  *)
(* is still to settle; no state of a call is an exception that leaves      *)
(* it), and every step of the call or of an adapter brings the return      *)
(* nearer, so a call whose adapter calls all settle returns.               *)
(***************************************************************************)
\* the number of steps a call has left at most
StepsLeft ==
    CASE pc = "ready" -> 2 * MaxSelected + 4
      [] pc = "gather" ->
            3 + Cardinality({i \in 1..Len(tasks) :
                                tasks[i].status = "scheduled"}) * 2
              + Cardinality({i \in 1..Len(tasks) :
                                tasks[i].status = "awaiting"})
      [] pc = "merge" -> 2
      [] pc = "complete" -> 1
      [] pc = "single_await" -> 1
      [] OTHER -> 0

\* the guards of the steps of a search_all_sources call: the call begins,
\* a unit begins, an adapter call is awaited, gather resumes the call, the
\* call merges, the call completes
CallCanStep ==
    \/ pc = "ready" /\ ~CallbackRaises
    \/ pc = "gather" /\ ~CallbackRaises
                     /\ \E i \in 1..Len(tasks) : NextToStart(i)
    \/ pc = "gather" /\ \E i \in 1..Len(tasks) : tasks[i].status = "awaiting"
    \/ pc = "gather" /\ gather_ready(tasks)
    \/ pc \in {"merge", "complete"}

C10_EventuallyReturns ==
    /\ [](IsCallAll => (pc = "returned" \/ CallCanStep))
    /\ [][IsCallAll => StepsLeft' < StepsLeft]_vars

C10_Witness ==
    /\ IsCallAll /\ pc = "returned"
    /\ Len(valid_sources) = 3
    /\ \A s \in Range(valid_sources) : Raised(s)
    /\ \A s \in Range(valid_sources) :
          ret_meta.source_results[s].success = FALSE
    /\ ret_table = EmptyFrame

(***************************************************************************)
(* The calls of the data layer that ended.                                 *)
(***************************************************************************)
CallReturned(f) == call = f /\ pc = "returned"
CallEnded(f) == call = f /\ pc \in {"returned", "raised"}

\* the positions of the candidates of the list that the raw mapping holds
\* with a value that is not None
Available(record, field_names) ==
    {k \in 1..Len(field_names) :
        /\ field_names[k] \in DOMAIN record
        /\ record[field_names[k]] # PyNone}

\* no name of the list is a key of the raw mapping
NoCandidate(record, field_names) ==
    \A k \in 1..Len(field_names) : field_names[k] \notin DOMAIN record

(***************************************************************************)
(* C11. The record normalize_record returns has exactly the nine           *)
(* canonical keys, and a canonical field none of whose candidate names is  *)
(* a key of the raw mapping holds its default: 0 for score and             *)
(* comments_count, the empty list for tags, None for the others.           *)
(***************************************************************************)
C11_NineCanonicalKeys ==
    CallReturned("normalize_record") =>
        /\ DOMAIN fn_result = Range(standard_fields)
        /\ \A g \in 1..Len(MappedFields) :
              NoCandidate(fn_args.record, FieldLists[g]) =>
                  fn_result[MappedFields[g]] =
                      IF MappedFields[g] \in {"score", "comments_count"}
                      THEN PyNum(0) ELSE PyNone
        /\ "tags" \notin DOMAIN fn_args.record =>
              fn_result["tags"] = PyList(<<>>)

C11_Witness ==
    /\ CallReturned("normalize_record")
    /\ fn_args.record = [author |-> PyStr(<<"author", "1">>)]
    /\ fn_result["author"] = PyStr(<<"author", "1">>)
    /\ fn_result["score"] = PyNum(0)
    /\ fn_result["title"] = PyNone
    /\ fn_result["tags"] = PyList(<<>>)

(***************************************************************************)
(* C12. The source field of the record normalize_record returns is the     *)
(* source argument, whatever source key the raw mapping holds.             *)
(***************************************************************************)
C12_SourceIsArgument ==
    CallReturned("normalize_record") =>
        fn_result["source"] = PyStr(<<fn_args.source>>)

C12_Witness ==
    /\ CallReturned("normalize_record")
    /\ "source" \in DOMAIN fn_args.record
    /\ fn_args.record["source"] = PyStr(<<"raw">>)
    /\ fn_args.source = "test"
    /\ fn_result["source"] = PyStr(<<"test">>)

(***************************************************************************)
(* C13. For title, body, author, date, url, score and comments_count the   *)
(* raw value normalize_record uses is that of the first name of the        *)
(* field's priority list that the raw mapping holds with a value that is   *)
(* not None: the field is that value (cleaned for title and body,          *)
(* converted by normalize_date for date), whatever the later candidates    *)
(* hold and whether or not earlier candidates are there with None.         *)
(***************************************************************************)
\* what the field of list g is when the raw value used is v
FieldOf(g, v) ==
    CASE MappedFields[g] \in {"title", "body"} ->
            IF Truthy(v) THEN PyStr(clean_text(v)) ELSE v
      [] MappedFields[g] = "date" -> normalize_date(v)
      [] OTHER -> v

C13_FirstCandidateWins ==
    CallReturned("normalize_record") =>
        \A g \in 1..Len(MappedFields) :
            LET avail == Available(fn_args.record, FieldLists[g])
            IN  avail # {} =>
                    LET first == CHOOSE k \in avail : \A j \in avail : k <= j
                    IN  fn_result[MappedFields[g]] =
                            FieldOf(g, fn_args.record[FieldLists[g][first]])

C13_Witness ==
    /\ CallReturned("normalize_record")
    /\ fn_args.record = [title |-> PyNone,
                         subject |-> PyStr(<<"title", "2">>),
                         question_title |-> PyStr(<<"title", "3">>)]
    /\ fn_result["title"] = PyStr(<<"title", "2">>)

(***************************************************************************)
(* C14. Normalizing a record that already has the nine canonical fields    *)
(* under their canonical names returns the same title, body, author, url,  *)
(* score, comments_count and tags, and the same date when the date is a    *)
(* UTC-aware timestamp.                                                    *)
(***************************************************************************)
IsCanonical(record) == DOMAIN record = Range(standard_fields)

C14_CanonicalRoundTrip ==
    (CallEnded("normalize_record") /\ IsCanonical(fn_args.record)) =>
        /\ pc = "returned"
        /\ \A f \in {"title", "body", "author", "url", "score",
                     "comments_count", "tags"} :
              fn_result[f] = fn_args.record[f]
        /\ (fn_args.record["date"].kind = "dt"
              /\ fn_args.record["date"].s = UTC) =>
              fn_result["date"] = fn_args.record["date"]

(***************************************************************************)
(* C15. normalize_date never raises: for every input it returns a          *)
(* timestamp or None.                                                      *)
(***************************************************************************)
C15_NormalizeDateNeverRaises ==
    CallEnded("normalize_date") =>
        /\ pc = "returned"
        /\ fn_result.kind \in {"dt", "none"}

(***************************************************************************)
(* C16. Every value normalize_date returns that is not None is a           *)
(* timestamp in UTC: of the same instant as a timestamp given with         *)
(* another timezone, of the wall clock of a timestamp given without        *)
(* timezone, of the epoch seconds of a number.                             *)
(***************************************************************************)
C16_ReturnsUTC ==
    (CallReturned("normalize_date") /\ fn_result # PyNone) =>
        /\ fn_result.kind = "dt"
        /\ fn_result.s = UTC
        /\ fn_args.date_input.kind = "dt" =>
              fn_result.n = fn_args.date_input.n
        /\ (fn_args.date_input.kind = "num" /\ fn_args.date_input.s = <<>>)
              => fn_result.n = fn_args.date_input.n

(***************************************************************************)
(* C17. When a record of a raw table makes normalization raise,            *)
(* normalize_dataframe still returns a table, which holds the normalized   *)
(* form of every other record, and the unit of work of the source is a     *)
(* success that counts these records.                                      *)
(***************************************************************************)
\* the normalized forms of the records of df whose normalization returns
RECURSIVE NormalizableRows(_, _, _)
NormalizableRows(df, source, i) ==
    IF i > Len(df.rows) THEN <<>>
    ELSE IF IsRaise(normalize_record(df.rows[i], source))
    THEN NormalizableRows(df, source, i + 1)
    ELSE <<normalize_record(df.rows[i], source)>>
         \o NormalizableRows(df, source, i + 1)

\* the rows of a, in their order, are among the rows of b
RECURSIVE IsSubsequence(_, _)
IsSubsequence(a, b) ==
    \/ a = <<>>
    \/ /\ b # <<>>
       /\ IF Head(a) = Head(b) THEN IsSubsequence(Tail(a), Tail(b))
          ELSE IsSubsequence(a, Tail(b))

C17_BadRecordDoesNotAbort ==
    /\ CallEnded("normalize_dataframe") =>
          /\ pc = "returned"
          /\ ~IsRaise(fn_result)
          /\ IsSubsequence(
                 NormalizableRows(fn_args.df, fn_args.source, 1),
                 fn_result.rows)
    /\ CallEnded("search_source") =>
          /\ fn_result.metadata.success
          /\ fn_result.metadata.count
                >= Len(NormalizableRows(fn_args.df, fn_args.source, 1))

(***************************************************************************)
(* C18. The rows of the table merge_dataframes returns are the rows of     *)
(* all the input tables taken together, each as many times as the inputs   *)
(* hold it (the same URL from two sources stays two rows), so the row      *)
(* count is the sum of the input row counts; tables without rows add       *)
(* nothing, and the merge of no table or of empty tables has no rows.      *)
(***************************************************************************)
\* the rows of all the tables, in the order of the tables
RECURSIVE AllInputRows(_)
AllInputRows(dataframes) ==
    IF dataframes = <<>> THEN <<>>
    ELSE Head(dataframes).rows \o AllInputRows(Tail(dataframes))

\* the row with the missing-cell marker in the columns it does not have
Padded(row, cols) ==
    [c \in cols |-> IF c \in DOMAIN row THEN row[c] ELSE PyNaN]

C18_MergeKeepsAllRows ==
    CallEnded("merge_dataframes") =>
        LET all == AllInputRows(fn_args.dataframes)
        IN  /\ pc = "returned"
            /\ FrameLen(fn_result) = Len(all)
            /\ SameRows(fn_result.rows,
                        [i \in 1..Len(all) |->
                            Padded(all[i], Range(fn_result.columns))])

C18_Witness ==
    /\ CallReturned("merge_dataframes")
    /\ fn_args.dataframes = <<PlainTable3, PlainTable2>>
    /\ FrameLen(fn_result) = 5
    /\ Occurrences(fn_result.rows,
                   [url |-> PyStr(<<"u">>), title |-> PyStr(<<"a">>),
                    score |-> PyNaN]) = 2

(***************************************************************************)
(* C19. When the merged table has a date column its dates never increase   *)
(* from the first row to the last, every row without a date comes after    *)
(* every dated row, and its index is 0, 1, ..., n-1.                       *)
(***************************************************************************)
C19_MergeSortedAndReindexed ==
    (CallReturned("merge_dataframes")
        /\ "date" \in Range(fn_result.columns)) =>
        /\ NewestFirst(fn_result.rows)
        /\ \A i, j \in 1..FrameLen(fn_result) :
              (IsNaT(fn_result.rows[i]) /\ ~IsNaT(fn_result.rows[j])) => j < i
        /\ fn_result.index = RangeIndex(FrameLen(fn_result))

C19_Witness ==
    /\ CallReturned("merge_dataframes")
    /\ fn_args.dataframes = <<normalize_dataframe(RawTableA, "news"),
                              normalize_dataframe(RawTableB, "reddit")>>
    /\ FrameLen(fn_result) = 3
    /\ fn_result.rows[1]["date"] = PyDate(6, UTC)
    /\ fn_result.rows[2]["date"] = PyDate(5, UTC)
    /\ fn_result.rows[3]["date"] = PyNone
    /\ fn_result.index = <<0, 1, 2>>

(***************************************************************************)
(* C20. filter_results returns exactly the rows of the input table that    *)
(* satisfy every filter given (score >= min_score; the keyword is a        *)
(* case-insensitive substring of the title or of the body; the date is     *)
(* within the range, bounds included, and a row without date is out), in   *)
(* their order and with the index 0..k-1; a filter that is not given       *)
(* removes no row.                                                         *)
(***************************************************************************)
\* p is a substring of t
IsSubstring(p, t) ==
    \E i \in 1..(Len(t) - Len(p) + 1) : SubSeq(t, i, i + Len(p) - 1) = p

HasKeyword(cell, keyword) ==
    cell.kind = "str" /\ IsSubstring(Lower(keyword), Lower(cell.s))

\* the row satisfies every filter of the arguments
Satisfies(row, a) ==
    /\ Truthy(a.source_filter) =>
          \E k \in 1..Len(a.source_filter.l) :
              a.source_filter.l[k] = row["source"].s
    /\ Truthy(a.date_range) =>
          /\ row["date"].kind = "dt"
          /\ row["date"].n >= a.date_range.l[1].n
          /\ row["date"].n <= a.date_range.l[2].n
    /\ a.min_score # PyNone =>
          row["score"].kind = "num" /\ row["score"].n >= a.min_score.n
    /\ Truthy(a.keyword_filter) =>
          \/ HasKeyword(row["title"], a.keyword_filter.s)
          \/ HasKeyword(row["body"], a.keyword_filter.s)

RECURSIVE SatisfyingRows(_, _)
SatisfyingRows(rows, a) ==
    IF rows = <<>> THEN <<>>
    ELSE IF Satisfies(Head(rows), a)
    THEN <<Head(rows)>> \o SatisfyingRows(Tail(rows), a)
    ELSE SatisfyingRows(Tail(rows), a)

C20_FilterExact ==
    CallEnded("filter_results") =>
        /\ pc = "returned"
        /\ fn_result.rows = SatisfyingRows(fn_args.df.rows, fn_args)
        /\ fn_result.index = RangeIndex(Len(fn_result.rows))

(***************************************************************************)
(* C21. Whenever a source_filter is given to filter_results, every row of  *)
(* the result has its source in the given set, and with no other filter    *)
(* the result holds exactly the input rows whose source is in the set, in  *)
(* their order: a set that names no source of the table, and the empty     *)
(* set, give a result without rows.                                        *)
(***************************************************************************)
\* the source of the row is one of the sources of the list
SourceIn(row, source_filter) ==
    \E k \in 1..Len(source_filter.l) : source_filter.l[k] = row["source"].s

RECURSIVE RowsOfSources(_, _)
RowsOfSources(rows, source_filter) ==
    IF rows = <<>> THEN <<>>
    ELSE IF SourceIn(Head(rows), source_filter)
    THEN <<Head(rows)>> \o RowsOfSources(Tail(rows), source_filter)
    ELSE RowsOfSources(Tail(rows), source_filter)

C21_SourceFilterExact ==
    (CallReturned("filter_results") /\ fn_args.source_filter # PyNone) =>
        /\ \A k \in 1..Len(fn_result.rows) :
              SourceIn(fn_result.rows[k], fn_args.source_filter)
        /\ (fn_args.date_range = PyNone /\ fn_args.min_score = PyNone
              /\ fn_args.keyword_filter = PyNone) =>
              fn_result.rows =
                  RowsOfSources(fn_args.df.rows, fn_args.source_filter)

(***************************************************************************)
(* C22. filter_results never modifies the table it is given: when the      *)
(* call returns, for any combination of filters, the input table has the   *)
(* rows, the row order and the index it had before the call, and the       *)
(* table returned is another object than the input.                        *)
(***************************************************************************)
C22_InputUntouchedResultNew ==
    CallReturned("filter_results") =>
        /\ fn_objects[1] = fn_args.df
        /\ fn_result_id # 1

(***************************************************************************)
(* C23. get_search_suggestions returns at most 10 suggestions; when a      *)
(* whitespace-separated token of the query is a word of the domain         *)
(* vocabulary the result holds "<query> <term>" for a domain term the      *)
(* query does not contain (case-insensitive); for a query of two or more   *)
(* tokens it holds a quoted combination of two adjacent tokens.            *)
(***************************************************************************)
\* the quoted combinations of two adjacent tokens of the query
AdjacentPairs(query) ==
    {Quoted(Split(Lower(query))[i] \o <<" ">> \o Split(Lower(query))[i + 1]) :
        i \in 1..(Len(Split(query)) - 1)}

C23_Suggestions ==
    CallEnded("get_search_suggestions") =>
        /\ pc = "returned"
        /\ Len(fn_result.l) <= 10
        /\ Range(Split(fn_args.query)) \cap construction_indicators # {} =>
              \E k \in 1..Len(construction_terms) :
                  /\ ~InStr(Lower(construction_terms[k]),
                            Lower(fn_args.query))
                  /\ fn_args.query \o <<" ">> \o construction_terms[k]
                        \in Range(fn_result.l)
        /\ Len(Split(fn_args.query)) >= 2 =>
              AdjacentPairs(fn_args.query) \cap Range(fn_result.l) # {}

(***************************************************************************)
(* C24. get_scraper_status returns one entry per key of the adapter        *)
(* mapping, each with available true and with configured equal to what     *)
(* the adapter's validate_config returns, and that value is a boolean:     *)
(* configured, and scraper_configured in a Source Outcome, is True or      *)
(* False for every adapter and every credential configuration.             *)
(***************************************************************************)
C24_StatusBoolean ==
    /\ CallReturned("get_scraper_status") =>
          /\ DOMAIN fn_result = ScraperKeys
          /\ \A s \in ScraperKeys :
                /\ fn_result[s].available = TRUE
                /\ fn_result[s].configured = validate_config(s)
                /\ fn_result[s].configured.kind = "bool"
    /\ CallReturned("search_source") =>
          fn_result.metadata.scraper_configured.kind = "bool"

(***************************************************************************)
(* C25. After any sequence of calls of search_all_sources,                 *)
(* search_single_source, filter_results, get_scraper_status and            *)
(* get_search_suggestions the adapter mapping has the keys and the         *)
(* adapters it had after construction and results_cache is empty, and     *)
(* what a call returns is what the same call returns on a new              *)
(* orchestrator: it does not depend on the calls made before.              *)
(***************************************************************************)
\* what search_all_sources returns on a new orchestrator for the inputs of
\* the call
NewSearchAll ==
    IF valid_sources = <<>>
    THEN [table |-> EmptyFrame,
          meta |-> [error |-> "No valid sources selected"]]
    ELSE LET results ==
                 [i \in 1..Len(valid_sources) |->
                     unit_result(valid_sources[i], outcome[valid_sources[i]])]
             acc == process_results(results, valid_sources, 1,
                        [dataframes |-> <<>>, metadata |-> <<>>])
             merged == merge_dataframes(acc.dataframes)
         IN  [table |-> merged,
              meta |-> [sources_searched |-> valid_sources,
                        total_results |-> FrameLen(merged),
                        source_results |-> acc.metadata]]

\* what search_single_source returns on a new orchestrator
NewSearchSingle ==
    IF single_source \notin ScraperKeys
    THEN [table |-> EmptyFrame,
          meta |-> [error |-> <<"Unknown source: ", single_source>>]]
    ELSE LET r == single_result(single_source, outcome[single_source])
         IN  [table |-> r.df, meta |-> r.metadata]

C25_NoCrossCallState ==
    /\ scrapers = InitialScrapers
    /\ results_cache = <<>>
    /\ pc = "returned" =>
          CASE call = "all" ->
                  ret_table = NewSearchAll.table /\ ret_meta = NewSearchAll.meta
            [] call = "single" ->
                  /\ ret_table = NewSearchSingle.table
                  /\ ret_meta = NewSearchSingle.meta
            [] call = "filter_results" ->
                  fn_result = filter_results(fn_args.df, fn_args.source_filter,
                                  fn_args.date_range, fn_args.min_score,
                                  fn_args.keyword_filter)
            [] call = "get_scraper_status" -> fn_result = get_scraper_status
            [] call = "get_search_suggestions" ->
                  fn_result = PyList(get_search_suggestions(fn_args.query))
            [] OTHER -> TRUE

\* the third call of a sequence, a search that returned a table with rows
C25_Witness ==
    /\ calls_begun = 3
    /\ IsCallAll /\ pc = "returned"
    /\ FrameLen(ret_table) = 2
    /\ scrapers = InitialScrapers
    /\ results_cache = <<>>

(***************************************************************************)
(* C26. In the metadata of a search_all_sources call that attempted at     *)
(* least one source, total_results is the number of rows of the returned   *)
(* table and the sum of the counts of source_results; source_results has   *)
(* one entry per attempted unit, and the count of a source is the number   *)
(* of rows of the returned table whose source field is that source.        *)
(***************************************************************************)
\* the sum of the counts of the entries of source_results
RECURSIVE SumOfCounts(_, _)
SumOfCounts(source_results, keys) ==
    IF keys = {} THEN 0
    ELSE LET k == CHOOSE x \in keys : TRUE
         IN  source_results[k].count
                 + SumOfCounts(source_results, keys \ {k})

\* the number of rows of the table whose source field is s
RowsOfSource(df, s) ==
    Cardinality({k \in 1..Len(df.rows) : df.rows[k]["source"].s = <<s>>})

C26_CountsAgree ==
    (IsCallAll /\ pc = "returned" /\ valid_sources # <<>>) =>
        /\ ret_meta.total_results = FrameLen(ret_table)
        /\ ret_meta.total_results =
              SumOfCounts(ret_meta.source_results,
                          DOMAIN ret_meta.source_results)
        /\ Cardinality(DOMAIN ret_meta.source_results) = Len(tasks)
        /\ \A s \in DOMAIN ret_meta.source_results :
              ret_meta.source_results[s].count = RowsOfSource(ret_table, s)

(***************************************************************************)
(* C27. When normalize_dataframe normalizes a raw table whose rows fill    *)
(* different candidate columns, each canonical field of a row takes the    *)
(* value of the first candidate that has an actual value in that row: a    *)
(* missing cell never wins over a later candidate that has a value, and    *)
(* never becomes the text of title or body.                                *)
(***************************************************************************)
\* the positions of the candidates of the list whose cell in the row holds
\* an actual value: neither None nor the missing-cell marker
Filled(record, field_names) ==
    {k \in 1..Len(field_names) :
        /\ field_names[k] \in DOMAIN record
        /\ record[field_names[k]] \notin {PyNone, PyNaN}}

C27_MissingCellNeverWins ==
    CallReturned("normalize_dataframe") =>
        \A i \in 1..Len(fn_args.df.rows) :
            \A g \in 1..Len(MappedFields) :
                LET filled == Filled(fn_args.df.rows[i], FieldLists[g])
                    first == CHOOSE k \in filled : \A j \in filled : k <= j
                IN  /\ filled # {} =>
                          fn_result.rows[i][MappedFields[g]] =
                              FieldOf(g, fn_args.df.rows[i][FieldLists[g][first]])
                    /\ MappedFields[g] \in {"title", "body"} =>
                          fn_result.rows[i][MappedFields[g]]
                              # PyStr(<<"n", "a", "n">>)

(***************************************************************************)
(* C28. The table returned by a search_all_sources or search_single_source *)
(* call that attempted a source carries the nine canonical columns, also   *)
(* when it has no rows because every source returned an empty table or     *)
(* every source failed.                                                    *)
(***************************************************************************)
C28_SchemaPreserved ==
    (pc = "returned"
        /\ \/ IsCallAll /\ valid_sources # <<>>
           \/ IsCallSingle /\ single_source \in ScraperKeys) =>
        ret_table.columns = standard_fields

(***************************************************************************)
(* C29. The string clean_text returns has no leading or trailing           *)
(* whitespace, no run of two or more whitespace characters and no HTML     *)
(* tag (no '<...>' span); None and the empty string give the empty         *)
(* string; cleaning the string returned gives it back unchanged.           *)
(***************************************************************************)
\* t holds a '<', one or more characters other than '>', then a '>'
HasTag(t) ==
    \E i, j \in 1..Len(t) :
        /\ t[i] = "<" /\ t[j] = ">" /\ j > i + 1
        /\ \A k \in (i + 1)..(j - 1) : t[k] # ">"

C29_CleanTextNormalForm ==
    CallEnded("clean_text") =>
        /\ pc = "returned"
        /\ LET out == fn_result.s
           IN  /\ out # <<>> => ~IsSpace(out[1]) /\ ~IsSpace(out[Len(out)])
               /\ \A i \in 1..(Len(out) - 1) :
                     ~(IsSpace(out[i]) /\ IsSpace(out[i + 1]))
               /\ ~HasTag(out)
               /\ fn_args.text \in {PyNone, PyStr(<<>>)} => out = <<>>
               /\ clean_text(PyStr(out)) = out

(***************************************************************************)
(* RateLimiter (utils/http_utils.py): the limiter of one HTTPClient, whose *)
(* wait() every request awaits before it is sent.  Time is counted in      *)
(* ticks.  Coroutines of one event loop call wait() on the same limiter:   *)
(* a coroutine runs without interruption from one await to the next, so    *)
(* wait() is two steps, the one up to asyncio.sleep and the one after it.  *)
(***************************************************************************)
MaxWaiters == 2
MaxTime == 6
MaxReturns == 4

\* lines 18-20: RateLimiter(delay), and no coroutine is in wait().  The
\* clock reads seconds since the epoch, further from 0 than any delay.
InitLimiter ==
    /\ delay \in {1, 2}
    /\ last_request_time = 0
    /\ now = delay
    /\ waiters = [c \in 1..MaxWaiters |-> [at |-> "out", wake |-> 0]]
    /\ returns = <<>>
    /\ call = "wait"
    /\ selected_sources = <<>>
    /\ has_callback = FALSE
    /\ cb_fail_at = 0
    /\ outcome = <<>>
    /\ single_source = ""
    /\ fn_args = <<>>
    /\ fn_result = <<>>
    /\ fn_objects = <<>>
    /\ fn_result_id = 0
    /\ api_config \in ApiConfigs
    /\ scrapers = InitialScrapers
    /\ results_cache = <<>>
    /\ calls_begun = 1
    /\ pc = "ready"
    /\ tasks = <<>>
    /\ settle_order = <<>>
    /\ search_calls = NoCalls
    /\ in_flight = NoCalls
    /\ progress = <<>>
    /\ source_dataframes = <<>>
    /\ source_metadata = <<>>
    /\ merged_df = EmptyFrame
    /\ ret_table = EmptyFrame
    /\ ret_meta = <<>>

\* line 31 and the return: last_request_time = time.time()
WaitReturns(c) ==
    /\ last_request_time' = now
    /\ returns' = Append(returns, [waiter |-> c, time |-> now])
    /\ waiters' = [waiters EXCEPT ![c] = [at |-> "out", wake |-> 0]]

\* lines 24-31: coroutine c calls wait(); it reads the clock and the time
\* of the last request, and either goes to sleep for the rest of the delay
\* (line 29) or returns at once
WaitCalled(c) ==
    /\ waiters[c].at = "out"
    /\ Len(returns)
         + Cardinality({w \in 1..MaxWaiters : waiters[w].at = "asleep"})
         < MaxReturns
    /\ LET current_time == now
           time_since_last == current_time - last_request_time
       IN  IF time_since_last < delay
           THEN LET wait_time == delay - time_since_last
                IN  /\ waiters' = [waiters EXCEPT
                           ![c] = [at |-> "asleep",
                                   wake |-> now + wait_time]]
                    /\ UNCHANGED <<last_request_time, returns>>
           ELSE WaitReturns(c)
    /\ UNCHANGED <<now, delay>>
    /\ UNCHANGED <<pc, Inputs, DataCall, Attributes, Locals, tasks,
                   settle_order, search_calls, in_flight, progress,
                   ret_table, ret_meta>>

\* lines 29-31: the sleep of coroutine c is over, at its time or later,
\* and wait() returns
WaitResumed(c) ==
    /\ waiters[c].at = "asleep"
    /\ now >= waiters[c].wake
    /\ WaitReturns(c)
    /\ UNCHANGED <<now, delay>>
    /\ UNCHANGED <<pc, Inputs, DataCall, Attributes, Locals, tasks,
                   settle_order, search_calls, in_flight, progress,
                   ret_table, ret_meta>>

\* the clock advances by one tick
TimePasses ==
    /\ call = "wait"
    /\ now < MaxTime
    /\ now' = now + 1
    /\ UNCHANGED <<delay, last_request_time, waiters, returns>>
    /\ UNCHANGED <<pc, Inputs, DataCall, Attributes, Locals, tasks,
                   settle_order, search_calls, in_flight, progress,
                   ret_table, ret_meta>>

NextLimiter ==
    \/ \E c \in 1..MaxWaiters : WaitCalled(c)
    \/ \E c \in 1..MaxWaiters : WaitResumed(c)
    \/ TimePasses

SpecLimiter == InitLimiter /\ [][NextLimiter]_vars

(***************************************************************************)
(* C30. Any two calls of wait() on one RateLimiter with delay d, the calls *)
(* of concurrent coroutines included, return at least d apart in time.     *)
(***************************************************************************)
C30_ReturnsSpaced ==
    \A i, j \in 1..Len(returns) :
        i < j => returns[j].time - returns[i].time >= delay

====
